---------------------------- MODULE Spec2Model ----------------------------
(***************************************************************************)
(* Model of the taxonomy explorer's background data pipeline:              *)
(*   - data-worker.js: the worker's message handler, the row normalizers,  *)
(*     the skills master builder, statistics, filtering and search;        *)
(*   - performance-manager.js: PerformanceManager.processInChunks,         *)
(*     processChunk, cancel, renderInChunks and loadDataProgressively;     *)
(*   - the list view: VirtualScroller and TreeVirtualScroller.             *)
(*                                                                         *)
(* JavaScript strings are sequences of code units, so that trim,           *)
(* toLowerCase, startsWith, includes and substring are computed.           *)
(* JavaScript values whose type matters (cells the CSV parser may have     *)
(* type-inferred, identifiers used as Map keys) are records [t, s, n].     *)
(***************************************************************************)
EXTENDS Integers, Sequences, FiniteSets, TLC

VARIABLES
    \* ---- data-worker.js ----
    workerData,        \* line 8: the worker's module-level dataset
    currentProgress,   \* line 18: last progress record
    posted,            \* messages the worker has posted, in order
    received,          \* commands delivered to self.onmessage, in order
    timers,            \* suspended buildSkillsMaster frames (setTimeout queue)
    papaResults,       \* what the CSV parser hands to the complete callback
    \* ---- performance-manager.js: PerformanceManager ----
    isProcessing,      \* this.isProcessing
    cancelToken,       \* this.cancelToken: 0 is null, else a token's identity
    tokens,            \* the token objects created: identity -> cancelled
    totalOperations,   \* this.performanceMetrics.totalOperations
    runs,              \* frames of the processInChunks calls made
    cancelLog,         \* where the run stood at each cancel() call
    load,              \* frame of the loadDataProgressively call made
    render,            \* frame of the renderInChunks call made
    \* ---- VirtualScroller / TreeVirtualScroller ----
    scroller,          \* the fields of the scroller instance
    \* ---- searchData / filterData as functions of the datasets ----
    search             \* the datasets given, the calls made and their answers

wvars == <<workerData, currentProgress, posted, received, timers, papaResults>>
pvars == <<isProcessing, cancelToken, tokens, totalOperations, runs, cancelLog>>
lvars == <<load>>
rvars == <<render>>
svars == <<scroller>>
qvars == <<search>>
vars == <<workerData, currentProgress, posted, received, timers, papaResults,
          isProcessing, cancelToken, tokens, totalOperations, runs, cancelLog,
          load, render, scroller, search>>

Min(a, b) == IF a < b THEN a ELSE b
Max(a, b) == IF a > b THEN a ELSE b

(***************************************************************************)
(* JavaScript strings.  A string is the sequence of its UTF-16 code units. *)
(* A code unit of the ASCII range is written as the character itself; any  *)
(* other code unit is written by its name, "u+" followed by its four       *)
(* hexadecimal digits in upper case: "u+00E9" is the one code unit of the  *)
(* letter e with acute, <<"c", "a", "f", "u+00E9">> is a string of length  *)
(* 4.  The strings of the model are over Basic Latin, Latin-1 Supplement   *)
(* and Latin Extended-A (U+0000 to U+017F), the combining dot U+0307 and   *)
(* the white space of the whole code unit range.                           *)
(***************************************************************************)
\* the code units String.prototype.toLowerCase changes, each with the code
\* units it becomes: the capital letters of U+0000 to U+017F.  U+0130, the
\* capital I with dot above, becomes two code units.
LowerCasePairs ==
    <<<<"A", <<"a">>>>, <<"B", <<"b">>>>, <<"C", <<"c">>>>,
      <<"D", <<"d">>>>, <<"E", <<"e">>>>, <<"F", <<"f">>>>,
      <<"G", <<"g">>>>, <<"H", <<"h">>>>, <<"I", <<"i">>>>,
      <<"J", <<"j">>>>, <<"K", <<"k">>>>, <<"L", <<"l">>>>,
      <<"M", <<"m">>>>, <<"N", <<"n">>>>, <<"O", <<"o">>>>,
      <<"P", <<"p">>>>, <<"Q", <<"q">>>>, <<"R", <<"r">>>>,
      <<"S", <<"s">>>>, <<"T", <<"t">>>>, <<"U", <<"u">>>>,
      <<"V", <<"v">>>>, <<"W", <<"w">>>>, <<"X", <<"x">>>>,
      <<"Y", <<"y">>>>, <<"Z", <<"z">>>>, <<"u+00C0", <<"u+00E0">>>>,
      <<"u+00C1", <<"u+00E1">>>>, <<"u+00C2", <<"u+00E2">>>>,
      <<"u+00C3", <<"u+00E3">>>>, <<"u+00C4", <<"u+00E4">>>>,
      <<"u+00C5", <<"u+00E5">>>>, <<"u+00C6", <<"u+00E6">>>>,
      <<"u+00C7", <<"u+00E7">>>>, <<"u+00C8", <<"u+00E8">>>>,
      <<"u+00C9", <<"u+00E9">>>>, <<"u+00CA", <<"u+00EA">>>>,
      <<"u+00CB", <<"u+00EB">>>>, <<"u+00CC", <<"u+00EC">>>>,
      <<"u+00CD", <<"u+00ED">>>>, <<"u+00CE", <<"u+00EE">>>>,
      <<"u+00CF", <<"u+00EF">>>>, <<"u+00D0", <<"u+00F0">>>>,
      <<"u+00D1", <<"u+00F1">>>>, <<"u+00D2", <<"u+00F2">>>>,
      <<"u+00D3", <<"u+00F3">>>>, <<"u+00D4", <<"u+00F4">>>>,
      <<"u+00D5", <<"u+00F5">>>>, <<"u+00D6", <<"u+00F6">>>>,
      <<"u+00D8", <<"u+00F8">>>>, <<"u+00D9", <<"u+00F9">>>>,
      <<"u+00DA", <<"u+00FA">>>>, <<"u+00DB", <<"u+00FB">>>>,
      <<"u+00DC", <<"u+00FC">>>>, <<"u+00DD", <<"u+00FD">>>>,
      <<"u+00DE", <<"u+00FE">>>>, <<"u+0100", <<"u+0101">>>>,
      <<"u+0102", <<"u+0103">>>>, <<"u+0104", <<"u+0105">>>>,
      <<"u+0106", <<"u+0107">>>>, <<"u+0108", <<"u+0109">>>>,
      <<"u+010A", <<"u+010B">>>>, <<"u+010C", <<"u+010D">>>>,
      <<"u+010E", <<"u+010F">>>>, <<"u+0110", <<"u+0111">>>>,
      <<"u+0112", <<"u+0113">>>>, <<"u+0114", <<"u+0115">>>>,
      <<"u+0116", <<"u+0117">>>>, <<"u+0118", <<"u+0119">>>>,
      <<"u+011A", <<"u+011B">>>>, <<"u+011C", <<"u+011D">>>>,
      <<"u+011E", <<"u+011F">>>>, <<"u+0120", <<"u+0121">>>>,
      <<"u+0122", <<"u+0123">>>>, <<"u+0124", <<"u+0125">>>>,
      <<"u+0126", <<"u+0127">>>>, <<"u+0128", <<"u+0129">>>>,
      <<"u+012A", <<"u+012B">>>>, <<"u+012C", <<"u+012D">>>>,
      <<"u+012E", <<"u+012F">>>>, <<"u+0130", <<"i", "u+0307">>>>,
      <<"u+0132", <<"u+0133">>>>, <<"u+0134", <<"u+0135">>>>,
      <<"u+0136", <<"u+0137">>>>, <<"u+0139", <<"u+013A">>>>,
      <<"u+013B", <<"u+013C">>>>, <<"u+013D", <<"u+013E">>>>,
      <<"u+013F", <<"u+0140">>>>, <<"u+0141", <<"u+0142">>>>,
      <<"u+0143", <<"u+0144">>>>, <<"u+0145", <<"u+0146">>>>,
      <<"u+0147", <<"u+0148">>>>, <<"u+014A", <<"u+014B">>>>,
      <<"u+014C", <<"u+014D">>>>, <<"u+014E", <<"u+014F">>>>,
      <<"u+0150", <<"u+0151">>>>, <<"u+0152", <<"u+0153">>>>,
      <<"u+0154", <<"u+0155">>>>, <<"u+0156", <<"u+0157">>>>,
      <<"u+0158", <<"u+0159">>>>, <<"u+015A", <<"u+015B">>>>,
      <<"u+015C", <<"u+015D">>>>, <<"u+015E", <<"u+015F">>>>,
      <<"u+0160", <<"u+0161">>>>, <<"u+0162", <<"u+0163">>>>,
      <<"u+0164", <<"u+0165">>>>, <<"u+0166", <<"u+0167">>>>,
      <<"u+0168", <<"u+0169">>>>, <<"u+016A", <<"u+016B">>>>,
      <<"u+016C", <<"u+016D">>>>, <<"u+016E", <<"u+016F">>>>,
      <<"u+0170", <<"u+0171">>>>, <<"u+0172", <<"u+0173">>>>,
      <<"u+0174", <<"u+0175">>>>, <<"u+0176", <<"u+0177">>>>,
      <<"u+0178", <<"u+00FF">>>>, <<"u+0179", <<"u+017A">>>>,
      <<"u+017B", <<"u+017C">>>>, <<"u+017D", <<"u+017E">>>>>>

\* the pairs as a function of the code unit
LowerCaseMapping ==
    LET mapping(pairs) ==
            [c \in {pairs[i][1] : i \in DOMAIN pairs} |->
                pairs[CHOOSE i \in DOMAIN pairs : pairs[i][1] = c][2]]
    IN  mapping(LowerCasePairs)

toLowerChar(c) ==
    LET mapped(mapping) == IF c \in DOMAIN mapping THEN mapping[c] ELSE <<c>>
    IN  mapped(LowerCaseMapping)

\* the code units of a sequence of strings, one string after the other
RECURSIVE lowerCaseUnits(_)
lowerCaseUnits(units) ==
    IF units = <<>> THEN <<>> ELSE Head(units) \o lowerCaseUnits(Tail(units))

\* String.prototype.toLowerCase: the code units of s, each replaced by the
\* code units it becomes
toLowerCase(s) ==
    LET joined(units) ==
            IF \A i \in DOMAIN units : Len(units[i]) = 1
            THEN [i \in DOMAIN units |-> units[i][1]]
            ELSE lowerCaseUnits(units)
    IN  joined([i \in 1..Len(s) |-> toLowerChar(s[i])])

\* WhiteSpace and LineTerminator, which String.prototype.trim removes: tab,
\* line feed, U+000B (written as the character itself), form feed, carriage
\* return, space, U+00A0, U+1680, U+2000 to U+200A, U+2028, U+2029, U+202F,
\* U+205F, U+3000 and U+FEFF
WhiteSpaceUnits ==
    {"\t", "\n", "", "\f", "\r", " ", "u+00A0", "u+1680",
     "u+2000", "u+2001", "u+2002", "u+2003", "u+2004", "u+2005", "u+2006",
     "u+2007", "u+2008", "u+2009", "u+200A", "u+2028", "u+2029", "u+202F",
     "u+205F", "u+3000", "u+FEFF"}

IsSpace(c) == c \in WhiteSpaceUnits

\* s without the white space it begins with
RECURSIVE trimStart(_)
trimStart(s) == IF s # <<>> /\ IsSpace(Head(s)) THEN trimStart(Tail(s)) ELSE s

\* s without the white space it ends with
RECURSIVE trimEnd(_)
trimEnd(s) ==
    IF s # <<>> /\ IsSpace(s[Len(s)]) THEN trimEnd(SubSeq(s, 1, Len(s) - 1)) ELSE s

\* a trim that leaves the text as it is
trimNothing(s) == s

trim(s) == trimEnd(trimStart(s))

\* a prefix test that ignores case
startsWithIgnoringCase(s, p) ==
    Len(p) <= Len(s) /\ toLowerCase(SubSeq(s, 1, Len(p))) = toLowerCase(p)

startsWith(s, p) == Len(p) <= Len(s) /\ SubSeq(s, 1, Len(p)) = p

\* first 0-based index at which p occurs in s, or -1
indexOf(s, p) ==
    LET hits == {i \in 0..(Len(s) - Len(p)) : SubSeq(s, i + 1, i + Len(p)) = p}
    IN  IF hits = {} THEN -1 ELSE CHOOSE i \in hits : \A j \in hits : i <= j

includes(s, p) == indexOf(s, p) >= 0

\* s.substring(0, n)
substring0(s, n) == SubSeq(s, 1, Min(n, Len(s)))

IsDigit(c) == c \in {"0", "1", "2", "3", "4", "5", "6", "7", "8", "9"}

\* code.replace(/^0+/, '')
stripLeadingZeros(s) ==
    LET from(kept) == IF kept = {} THEN <<>>
                      ELSE SubSeq(s, CHOOSE i \in kept : \A j \in kept : i <= j, Len(s))
    IN  from({i \in 1..Len(s) : s[i] # "0"})

\* code.split('_').length
splitLength(s) == Cardinality({i \in 1..Len(s) : s[i] = "_"}) + 1

DigitChar(d) ==
    CASE d = 0 -> "0" [] d = 1 -> "1" [] d = 2 -> "2" [] d = 3 -> "3"
      [] d = 4 -> "4" [] d = 5 -> "5" [] d = 6 -> "6" [] d = 7 -> "7"
      [] d = 8 -> "8" [] OTHER -> "9"

\* String(n) for an integer n
RECURSIVE numberToString(_)
numberToString(n) ==
    IF n < 0 THEN <<"-">> \o numberToString(0 - n)
    ELSE IF n < 10 THEN <<DigitChar(n)>>
    ELSE Append(numberToString(n \div 10), DigitChar(n % 10))

(***************************************************************************)
(* JavaScript values                                                       *)
(***************************************************************************)
Undefined == [t |-> "undefined", s |-> <<>>, n |-> 0]
Null      == [t |-> "null", s |-> <<>>, n |-> 0]
Str(s)    == [t |-> "string", s |-> s, n |-> 0]
Num(n)    == [t |-> "number", s |-> <<>>, n |-> n]
Bool(b)   == [t |-> "boolean", s |-> <<>>, n |-> IF b THEN 1 ELSE 0]

IsNullish(v) == v.t \in {"undefined", "null"}
IsString(v) == v.t = "string"

\* ToBoolean
Truthy(v) ==
    CASE v.t = "string" -> v.s # <<>>
      [] v.t = "number" -> v.n # 0
      [] v.t = "boolean" -> v.n = 1
      [] OTHER -> FALSE

\* ToString(v), as a template literal or a property name applies it;
\* v.toString() gives the same on every value that has the method
toString(v) ==
    CASE v.t = "string" -> v.s
      [] v.t = "number" -> numberToString(v.n)
      [] v.t = "boolean" -> IF v.n = 1 THEN <<"t", "r", "u", "e">>
                            ELSE <<"f", "a", "l", "s", "e">>
      [] v.t = "null" -> <<"n", "u", "l", "l">>
      [] OTHER -> <<"u", "n", "d", "e", "f", "i", "n", "e", "d">>

\* a || b
OrElse(a, b) == IF Truthy(a) THEN a ELSE b

\* row.NAME: a column the row lacks reads as undefined
Col(row, name) == IF name \in DOMAIN row THEN row[name] ELSE Undefined


(***************************************************************************)
(* Row normalizers (data-worker.js lines 140-267).  A normalizer returns   *)
(* an entity, returns null, or throws a TypeError (a method called on a    *)
(* value that lacks it).                                                   *)
(***************************************************************************)
NoEntity == [kind |-> "none"]
RowEntity(e) == [k |-> "entity", e |-> e]
RowNull == [k |-> "null", e |-> NoEntity]
RowThrow == [k |-> "throw", e |-> NoEntity]

OccupationDescriptionLimit == 300
GroupDescriptionLimit == 400
SkillDescriptionLimit == 300
SkillGroupDescriptionLimit == 300

UnknownSkill == <<"U", "n", "k", "n", "o", "w", "n", " ", "S", "k", "i", "l", "l">>
UnknownGroup == <<"U", "n", "k", "n", "o", "w", "n", " ", "G", "r", "o", "u", "p">>
General == <<"G", "e", "n", "e", "r", "a", "l">>
Related == <<"r", "e", "l", "a", "t", "e", "d">>
IscedF == <<"i", "s", "c", "e", "d", "-", "f">>

\* v ? v.method() : ''   throws when v is truthy and not a string
CondThrows(v) == Truthy(v) /\ ~IsString(v)
\* v?.method() || dflt    throws when v is neither nullish nor a string
OptThrows(v) == ~IsNullish(v) /\ ~IsString(v)

\* row.DESCRIPTION.substring(0, limit).trim()
truncate(s, limit) == trim(substring0(s, limit))

processOccupationRow(row) ==
    LET CODE == Col(row, "CODE")
        LABEL == Col(row, "PREFERREDLABEL")
        DESC == Col(row, "DESCRIPTION")
        ALT == Col(row, "ALTLABELS")
        GROUP == Col(row, "OCCUPATIONGROUPCODE")
    IN  IF ~Truthy(CODE) \/ ~Truthy(LABEL) THEN RowNull
        ELSE IF ~IsString(LABEL) \/ CondThrows(DESC) \/ CondThrows(ALT) THEN RowThrow
        ELSE LET code == trim(toString(CODE))
                 isUnseen == startsWith(code, <<"I">>)
             IN  RowEntity(
                   [id |-> Col(row, "ID"),
                    code |-> code,
                    label |-> trim(LABEL.s),
                    description |-> IF Truthy(DESC)
                                    THEN truncate(DESC.s, OccupationDescriptionLimit)
                                    ELSE <<>>,
                    altLabels |-> IF Truthy(ALT) THEN trim(ALT.s) ELSE <<>>,
                    type |-> IF isUnseen THEN "unseen" ELSE "seen",
                    groupCode |-> IF Truthy(GROUP) THEN trim(toString(GROUP)) ELSE <<>>,
                    occupationType |-> OrElse(Col(row, "OCCUPATIONTYPE"), Str(<<>>)),
                    ISLOCALIZED |-> OrElse(Col(row, "ISLOCALIZED"), Bool(FALSE))])

\* lines 165-176
\* a level that counts the segments only
groupLevelOfSegments(code) ==
    IF startsWith(code, <<"I">>)
    THEN IF \E i \in 1..Len(code) : code[i] = "_" THEN splitLength(code)
         ELSE IF Len(code) > 2 THEN 2
         ELSE 1
    ELSE Max(1, Len(stripLeadingZeros(code)))

groupLevel(code) ==
    IF startsWith(code, <<"I">>)
    THEN IF \E i \in 1..Len(code) : code[i] = "_" THEN splitLength(code) + 1
         ELSE IF Len(code) > 2 THEN 2
         ELSE 1
    ELSE Max(1, Len(stripLeadingZeros(code)))

processGroupRow(row) ==
    LET CODE == Col(row, "CODE")
        LABEL == Col(row, "PREFERREDLABEL")
        DESC == Col(row, "DESCRIPTION")
        ALT == Col(row, "ALTLABELS")
    IN  IF ~Truthy(CODE) \/ ~Truthy(LABEL) THEN RowNull
        ELSE IF ~IsString(LABEL) \/ CondThrows(DESC) \/ CondThrows(ALT) THEN RowThrow
        ELSE LET code == trim(toString(CODE))
                 isUnseen == startsWith(code, <<"I">>)
             IN  RowEntity(
                   [id |-> Col(row, "ID"),
                    code |-> code,
                    label |-> trim(LABEL.s),
                    description |-> IF Truthy(DESC)
                                    THEN truncate(DESC.s, GroupDescriptionLimit)
                                    ELSE <<>>,
                    altLabels |-> IF Truthy(ALT) THEN trim(ALT.s) ELSE <<>>,
                    type |-> IF isUnseen THEN "unseen" ELSE "seen",
                    level |-> groupLevel(code),
                    groupType |-> OrElse(Col(row, "GROUPTYPE"), Str(<<>>)),
                    ISLOCALIZED |-> OrElse(Col(row, "ISLOCALIZED"), Bool(FALSE))])

\* v?.trim() || dflt, for v nullish or a string
optTrim(v, dflt) ==
    IF IsNullish(v) \/ trim(v.s) = <<>> THEN dflt ELSE trim(v.s)

\* v?.substring(0, limit).trim() || '', for v nullish or a string
optTruncate(v, limit) ==
    IF IsNullish(v) THEN <<>> ELSE truncate(v.s, limit)

processSkillRow(row) ==
    LET ID == Col(row, "ID")
        LABEL == Col(row, "PREFERREDLABEL")
        DESC == Col(row, "DESCRIPTION")
        ALT == Col(row, "ALTLABELS")
    IN  IF ~Truthy(ID) THEN RowNull
        ELSE IF OptThrows(LABEL) \/ OptThrows(DESC) \/ OptThrows(ALT) THEN RowThrow
        ELSE RowEntity(
               [id |-> ID,
                label |-> optTrim(LABEL, UnknownSkill),
                description |-> optTruncate(DESC, SkillDescriptionLimit),
                altLabels |-> optTrim(ALT, <<>>),
                skillType |-> OrElse(Col(row, "SKILLTYPE"), Str(General)),
                reuseLevel |-> OrElse(Col(row, "REUSELEVEL"), Str(<<>>)),
                ISLOCALIZED |-> OrElse(Col(row, "ISLOCALIZED"), Bool(FALSE))])

RECURSIVE takeDigits(_)
takeDigits(s) ==
    IF s # <<>> /\ IsDigit(Head(s)) THEN <<Head(s)>> \o takeDigits(Tail(s)) ELSE <<>>

\* uri.match(/isced-f\/(\d+)/): the captured digits, or <<>> when no match
iscedMatch(uri) ==
    LET pat == IscedF \o <<"/">>
        hits == {i \in 0..(Len(uri) - Len(pat) - 1) :
                    /\ SubSeq(uri, i + 1, i + Len(pat)) = pat
                    /\ IsDigit(uri[i + Len(pat) + 1])}
    IN  IF hits = {} THEN <<>>
        ELSE LET i == CHOOSE h \in hits : \A j \in hits : h <= j
             IN  takeDigits(SubSeq(uri, i + Len(pat) + 1, Len(uri)))

\* line 208: row.CODE?.toString().trim() || row.ID
\* a code that is read without trimming
skillGroupCodeUntrimmed(row) ==
    LET CODE == Col(row, "CODE")
    IN  IF IsNullish(CODE) \/ toString(CODE) = <<>> THEN Col(row, "ID")
        ELSE Str(toString(CODE))

skillGroupCode(row) ==
    LET CODE == Col(row, "CODE")
    IN  IF IsNullish(CODE) \/ trim(toString(CODE)) = <<>> THEN Col(row, "ID")
        ELSE Str(trim(toString(CODE)))

processSkillGroupRow(row) ==
    LET ID == Col(row, "ID")
        LABEL == Col(row, "PREFERREDLABEL")
        DESC == Col(row, "DESCRIPTION")
        ALT == Col(row, "ALTLABELS")
        URI == Col(row, "ORIGINURI")
        code0 == skillGroupCode(row)
    IN  IF ~Truthy(ID) THEN RowNull
        ELSE IF ~IsString(code0) THEN RowThrow
        ELSE LET prefixed == \/ startsWith(code0.s, <<"S">>)
                             \/ startsWith(code0.s, <<"L">>)
                             \/ startsWith(code0.s, <<"T">>)
             IN  IF ~prefixed /\ OptThrows(URI) THEN RowThrow
                 ELSE IF OptThrows(LABEL) \/ OptThrows(DESC) \/ OptThrows(ALT) THEN RowThrow
                 ELSE LET knowledge == /\ ~prefixed /\ IsString(URI)
                                       /\ includes(URI.s, IscedF)
                          category ==
                            IF startsWith(code0.s, <<"S">>) THEN "Skills and competencies"
                            ELSE IF startsWith(code0.s, <<"L">>) THEN "Language"
                            ELSE IF startsWith(code0.s, <<"T">>) THEN "Transversal skills"
                            ELSE IF knowledge THEN "Knowledge"
                            ELSE "Other"
                          code == IF knowledge /\ iscedMatch(URI.s) # <<>>
                                  THEN iscedMatch(URI.s) ELSE code0.s
                      IN  RowEntity(
                            [id |-> ID,
                             code |-> code,
                             label |-> optTrim(LABEL, UnknownGroup),
                             description |-> optTruncate(DESC, SkillGroupDescriptionLimit),
                             altLabels |-> optTrim(ALT, <<>>),
                             category |-> category,
                             ISLOCALIZED |-> OrElse(Col(row, "ISLOCALIZED"), Bool(FALSE))])

processHierarchyRow(row) ==
    IF ~Truthy(Col(row, "PARENTID")) \/ ~Truthy(Col(row, "CHILDID")) THEN RowNull
    ELSE RowEntity([parentId |-> Col(row, "PARENTID"), childId |-> Col(row, "CHILDID")])

processSkillHierarchyRow(row) ==
    IF ~Truthy(Col(row, "PARENTID")) \/ ~Truthy(Col(row, "CHILDID")) THEN RowNull
    ELSE RowEntity([parentId |-> Col(row, "PARENTID"), childId |-> Col(row, "CHILDID")])

processOccupationToSkillRow(row) ==
    LET OCC == Col(row, "OCCUPATIONID")
        SKILL == Col(row, "SKILLID")
        hasOccId == Truthy(OCC) /\ trim(toString(OCC)) # <<>>
        hasSkillId == Truthy(SKILL) /\ trim(toString(SKILL)) # <<>>
    IN  IF ~hasOccId \/ ~hasSkillId THEN RowNull
        ELSE RowEntity(
               [occupationId |-> trim(toString(OCC)),
                skillId |-> trim(toString(SKILL)),
                relationType |-> OrElse(Col(row, "RELATIONTYPE"), Str(Related)),
                signallingValue |-> OrElse(Col(row, "SIGNALLINGVALUE"), Num(0)),
                signallingValueLabel |-> OrElse(Col(row, "SIGNALLINGVALUELABEL"), Str(<<>>))])

\* the switch of processDataChunk (lines 99-121): an unlisted dataType
\* leaves processedRow null
processRow(dataType, row) ==
    CASE dataType = "occupations" -> processOccupationRow(row)
      [] dataType = "groups" -> processGroupRow(row)
      [] dataType = "skills" -> processSkillRow(row)
      [] dataType = "skillGroups" -> processSkillGroupRow(row)
      [] dataType = "hierarchy" -> processHierarchyRow(row)
      [] dataType = "skillHierarchy" -> processSkillHierarchyRow(row)
      [] dataType = "occupationToSkills" -> processOccupationToSkillRow(row)
      [] OTHER -> RowNull


(***************************************************************************)
(* JavaScript Map (insertion-ordered, keys compared by SameValueZero) and  *)
(* Object.fromEntries (keys converted to property-name strings).           *)
(***************************************************************************)
EmptyMap == [keys |-> <<>>, vals |-> <<>>]

MapIndex(m, k) ==
    IF \E i \in 1..Len(m.keys) : m.keys[i] = k
    THEN CHOOSE i \in 1..Len(m.keys) : m.keys[i] = k
    ELSE 0

MapHas(m, k) == MapIndex(m, k) # 0

MapGet(m, k) == m.vals[MapIndex(m, k)]

MapSet(m, k, v) ==
    IF MapHas(m, k) THEN [m EXCEPT !.vals[MapIndex(m, k)] = v]
    ELSE [keys |-> Append(m.keys, k), vals |-> Append(m.vals, v)]

\* Object.fromEntries(map): a later entry with the same property name wins
ObjectFromEntries(m) ==
    LET names == {toString(m.keys[i]) : i \in 1..Len(m.keys)}
        last(name) == CHOOSE i \in 1..Len(m.keys) :
                        /\ toString(m.keys[i]) = name
                        /\ \A j \in 1..Len(m.keys) :
                              toString(m.keys[j]) = name => j <= i
    IN  [name \in names |-> m.vals[last(name)]]

EmptyObject == <<>>

(***************************************************************************)
(* data-worker.js: messages                                                *)
(***************************************************************************)
\* c doubled until it reaches t
RECURSIVE scaledUp(_, _)
scaledUp(c, t) == IF c < t THEN scaledUp(2 * c, t) ELSE c

\* t doubled until c is below twice t
RECURSIVE scaledDown(_, _)
scaledDown(c, t) == IF c >= 2 * t THEN scaledDown(c, 2 * t) ELSE t

\* the remainder of r / t (0 <= r < t) after n further binary digits
RECURSIVE binaryRemainder(_, _, _)
binaryRemainder(r, t, n) ==
    IF n = 0 THEN r
    ELSE IF n >= 8 /\ t < 8388608 THEN binaryRemainder((256 * r) % t, t, n - 8)
    ELSE binaryRemainder((2 * r) % t, t, n - 1)

\* Math.round((c / t) * 100) in IEEE-754 doubles, for c >= 0 and t > 0.
\* Off the halves the double computation rounds as the exact quotient
\* does.  When 100c/t is k + 1/2 the division c / t is rounded to 53
\* significant bits first: if it was rounded downwards by more than half
\* a unit of the product's last place, the product is a double below
\* k + 1/2 and Math.round gives k (23/40*100 is 57.49999999999999);
\* otherwise the product is k + 1/2 or above and Math.round gives k + 1.
MathRoundPercent(c, t) ==
    IF (200 * c) % (2 * t) # t THEN (200 * c + t) \div (2 * t)
    ELSE LET k == (100 * c) \div t
             cc == scaledUp(c, t)
             tt == scaledDown(cc, t)
             r == binaryRemainder(cc - tt, tt, 52)
         IN  IF r # 0 /\ 2 * r < tt /\ 100 * cc <= 128 * tt /\ 25 * r > 8 * tt
             THEN k ELSE k + 1

\* line 571
Percentage(completed, total) ==
    IF total > 0 THEN MathRoundPercent(completed, total) ELSE 0

Text(fmt, args) == [fmt |-> fmt, args |-> args]

\* updateProgress (lines 562-575): the record kept and the message posted.
\* req is the position in `received` of the command being served.
ProgressRecord(phase, completed, total, message) ==
    [phase |-> phase, completed |-> completed, total |-> total, message |-> message]

updateProgress(req, phase, completed, total, message) ==
    [type |-> "PROGRESS_UPDATE", req |-> req,
     progress |-> [phase |-> phase, completed |-> completed, total |-> total,
                   percentage |-> Percentage(completed, total),
                   message |-> message]]

ErrorMessage(req, text) == [type |-> "ERROR", req |-> req, error |-> text]

\* the record updateProgress leaves in currentProgress after posting msgs
LastProgress(cur, msgs) ==
    LET idx == {i \in 1..Len(msgs) : msgs[i].type = "PROGRESS_UPDATE"}
    IN  IF idx = {} THEN cur
        ELSE LET i == CHOOSE x \in idx : \A y \in idx : y <= x
                 p == msgs[i].progress
             IN  ProgressRecord(p.phase, p.completed, p.total, p.message)

(***************************************************************************)
(* data-worker.js: processCsvBatch and processDataChunk (lines 59-137)     *)
(***************************************************************************)
\* processDataChunk: the messages it posts, or the fault a normalizer threw
\* out of chunk.forEach (then nothing of the chunk is posted).
processDataChunk(chunk, dataType, batchId, req) ==
    LET res == [i \in 1..Len(chunk) |-> processRow(dataType, chunk[i])]
        kept == SelectSeq(res, LAMBDA r : r.k = "entity")
        processedChunk == [i \in 1..Len(kept) |-> kept[i].e]
    IN  IF \E i \in 1..Len(res) : res[i].k = "throw"
        THEN [threw |-> TRUE, msgs |-> <<>>]
        ELSE [threw |-> FALSE,
              msgs |-> IF Len(processedChunk) > 0
                       THEN <<[type |-> "DATA_CHUNK_PROCESSED", req |-> req,
                               batchId |-> batchId, dataType |-> dataType,
                               chunk |-> processedChunk]>>
                       ELSE <<>>]

\* the parser's chunk callback over successive chunks, until one throws
RECURSIVE processChunks(_, _, _, _)
processChunks(chunks, dataType, batchId, req) ==
    IF chunks = <<>> THEN [threw |-> FALSE, msgs |-> <<>>]
    ELSE LET first == processDataChunk(Head(chunks), dataType, batchId, req)
         IN  IF first.threw THEN first
             ELSE LET rest == processChunks(Tail(chunks), dataType, batchId, req)
                  IN  [threw |-> rest.threw, msgs |-> first.msgs \o rest.msgs]

\* the complete callback (lines 75-86), given the parser's results: the
\* number of rows in results.data and results.errors
completeCallback(rowCount, errors, dataType, batchId, req) ==
    << [type |-> "CSV_BATCH_COMPLETE", req |-> req, batchId |-> batchId,
        dataType |-> dataType, rowCount |-> rowCount, errors |-> errors],
       updateProgress(req, Text("%s complete", <<dataType>>), 1, 1,
                      Text("Processed %d rows", <<rowCount>>)) >>

TypeError == Text("TypeError", <<>>)

\* processCsvBatch run inside onmessage's try/catch: every message posted
\* while the command is handled.  chunks is the parser's division of the
\* rows; results tells whether the parser hands complete() a results
\* object ("results") or nothing ("none": results.data then throws).
processCsvBatch(data, chunks, results, req) ==
    LET start == <<updateProgress(req, Text("Processing %s", <<data.dataType>>), 0, 1,
                                  Text("Parsing CSV data...", <<>>))>>
        body == processChunks(chunks, data.dataType, data.batchId, req)
    IN  IF body.threw \/ results = "none"
        THEN start \o body.msgs \o <<ErrorMessage(req, TypeError)>>
        ELSE start \o body.msgs
                   \o completeCallback(Len(data.csvData), data.errors, data.dataType,
                                      data.batchId, req)

\* the parser's division of the rows into successive chunks: a string
\* parsed with no chunkSize option reaches the chunk callback as one chunk
Chunkings(rows) == {<<rows>>}


(***************************************************************************)
(* data-worker.js: buildSkillsMaster (lines 270-351)                       *)
(***************************************************************************)
BATCH_SIZE == 500

\* an array-valued payload field, or the field missing from the payload
Arr(a) == [t |-> "array", a |-> a]
NoArr == [t |-> "undefined", a |-> <<>>]

\* hierarchy maps in which a child keeps the parent of its first edge
RECURSIVE buildHierarchyMapsFirstParent(_, _, _)
buildHierarchyMapsFirstParent(edges, hmap, pmap) ==
    IF edges = <<>> THEN [skillHierarchyMap |-> hmap, skillParentMap |-> pmap]
    ELSE LET rel == Head(edges)
             h0 == IF MapHas(hmap, rel.parentId) THEN hmap
                   ELSE MapSet(hmap, rel.parentId, <<>>)
             h1 == MapSet(h0, rel.parentId, Append(MapGet(h0, rel.parentId), rel.childId))
         IN  buildHierarchyMapsFirstParent(Tail(edges), h1,
                 IF MapHas(pmap, rel.childId) THEN pmap
                 ELSE MapSet(pmap, rel.childId, rel.parentId))

\* lines 281-290, over the edges in input order
RECURSIVE buildHierarchyMaps(_, _, _)
buildHierarchyMaps(edges, hmap, pmap) ==
    IF edges = <<>> THEN [skillHierarchyMap |-> hmap, skillParentMap |-> pmap]
    ELSE LET rel == Head(edges)
             h0 == IF MapHas(hmap, rel.parentId) THEN hmap
                   ELSE MapSet(hmap, rel.parentId, <<>>)
             h1 == MapSet(h0, rel.parentId, Append(MapGet(h0, rel.parentId), rel.childId))
         IN  buildHierarchyMaps(Tail(edges), h1, MapSet(pmap, rel.childId, rel.parentId))

\* lines 293-299: index the entities whose id is truthy
RECURSIVE indexById(_, _)
indexById(items, m) ==
    IF items = <<>> THEN m
    ELSE indexById(Tail(items),
                   IF Truthy(Head(items).id) THEN MapSet(m, Head(items).id, Head(items))
                   ELSE m)

UnknownItemLabel(childId) ==
    <<"U", "n", "k", "n", "o", "w", "n", " ", "I", "t", "e", "m", " ", "(">>
        \o toString(childId) \o <<")">>

\* a node builder that looks the id up in the skill-group index first
createEnrichedSkillItemGroupFirst(childId, skillParentMap, skillHierarchyMap, skillDataById, skillGroupDataById) ==
    LET parentId == MapGet(skillParentMap, childId)
        childrenIds == IF MapHas(skillHierarchyMap, childId)
                       THEN MapGet(skillHierarchyMap, childId) ELSE <<>>
    IN  IF MapHas(skillGroupDataById, childId)
        THEN [id |-> childId, parentId |-> parentId, childrenIds |-> childrenIds,
              type |-> "skillgroup"]
        ELSE IF MapHas(skillDataById, childId)
        THEN [id |-> childId, parentId |-> parentId, childrenIds |-> childrenIds,
              type |-> "skill"]
        ELSE [id |-> childId, parentId |-> parentId, childrenIds |-> childrenIds,
              type |-> "unknown"]

\* a node builder that marks every node it finds in an index as searchable
createEnrichedSkillItemAllSearchable(childId, skillParentMap, skillHierarchyMap, skillDataById, skillGroupDataById) ==
    LET parentId == MapGet(skillParentMap, childId)
        childrenIds == IF MapHas(skillHierarchyMap, childId)
                       THEN MapGet(skillHierarchyMap, childId) ELSE <<>>
    IN  IF MapHas(skillDataById, childId)
        THEN LET skillData == MapGet(skillDataById, childId)
             IN  [id |-> childId, parentId |-> parentId, childrenIds |-> childrenIds,
                  type |-> "skill",
                  label |-> skillData.label,
                  description |-> skillData.description,
                  altLabels |-> skillData.altLabels,
                  skillType |-> skillData.skillType,
                  reuseLevel |-> skillData.reuseLevel,
                  isClickable |-> TRUE,
                  isSearchable |-> TRUE,
                  ISLOCALIZED |-> skillData.ISLOCALIZED]
        ELSE IF MapHas(skillGroupDataById, childId)
        THEN LET skillGroupData == MapGet(skillGroupDataById, childId)
             IN  [id |-> childId, parentId |-> parentId, childrenIds |-> childrenIds,
                  type |-> "skillgroup",
                  code |-> skillGroupData.code,
                  label |-> skillGroupData.label,
                  description |-> skillGroupData.description,
                  altLabels |-> skillGroupData.altLabels,
                  category |-> skillGroupData.category,
                  isClickable |-> TRUE,
                  isSearchable |-> TRUE,
                  ISLOCALIZED |-> skillGroupData.ISLOCALIZED]
        ELSE [id |-> childId, parentId |-> parentId, childrenIds |-> childrenIds,
              type |-> "unknown",
              label |-> UnknownItemLabel(childId),
              isClickable |-> FALSE,
              isSearchable |-> FALSE]

\* lines 354-404
createEnrichedSkillItem(childId, skillParentMap, skillHierarchyMap, skillDataById, skillGroupDataById) ==
    LET parentId == MapGet(skillParentMap, childId)
        childrenIds == IF MapHas(skillHierarchyMap, childId)
                       THEN MapGet(skillHierarchyMap, childId) ELSE <<>>
    IN  IF MapHas(skillDataById, childId)
        THEN LET skillData == MapGet(skillDataById, childId)
             IN  [id |-> childId, parentId |-> parentId, childrenIds |-> childrenIds,
                  type |-> "skill",
                  label |-> skillData.label,
                  description |-> skillData.description,
                  altLabels |-> skillData.altLabels,
                  skillType |-> skillData.skillType,
                  reuseLevel |-> skillData.reuseLevel,
                  isClickable |-> TRUE,
                  isSearchable |-> FALSE,
                  ISLOCALIZED |-> skillData.ISLOCALIZED]
        ELSE IF MapHas(skillGroupDataById, childId)
        THEN LET skillGroupData == MapGet(skillGroupDataById, childId)
             IN  [id |-> childId, parentId |-> parentId, childrenIds |-> childrenIds,
                  type |-> "skillgroup",
                  code |-> skillGroupData.code,
                  label |-> skillGroupData.label,
                  description |-> skillGroupData.description,
                  altLabels |-> skillGroupData.altLabels,
                  category |-> skillGroupData.category,
                  isClickable |-> TRUE,
                  isSearchable |-> TRUE,
                  ISLOCALIZED |-> skillGroupData.ISLOCALIZED]
        ELSE [id |-> childId, parentId |-> parentId, childrenIds |-> childrenIds,
              type |-> "unknown",
              label |-> UnknownItemLabel(childId),
              isClickable |-> FALSE,
              isSearchable |-> FALSE]

BuildPhase == Text("Building Skills Master", <<>>)

\* a build whose skillsMaster map is shared with the build suspended before it
buildStartSharingMaster(data, req) ==
    LET maps == buildHierarchyMaps(data.skillHierarchy.a, EmptyMap, EmptyMap)
    IN  [req |-> req,
         skillHierarchyMap |-> maps.skillHierarchyMap,
         skillParentMap |-> maps.skillParentMap,
         skillDataById |-> indexById(data.skills.a, EmptyMap),
         skillGroupDataById |-> indexById(data.skillGroups.a, EmptyMap),
         skillsMaster |-> IF timers # <<>> THEN Head(timers).skillsMaster ELSE EmptyMap,
         allChildIds |-> maps.skillParentMap.keys,
         total |-> Len(maps.skillParentMap.keys),
         i |-> 0,
         processed |-> 0]

\* lines 271-305: the frame of a build as it enters its loop
buildStart(data, req) ==
    LET maps == buildHierarchyMaps(data.skillHierarchy.a, EmptyMap, EmptyMap)
    IN  [req |-> req,
         skillHierarchyMap |-> maps.skillHierarchyMap,
         skillParentMap |-> maps.skillParentMap,
         skillDataById |-> indexById(data.skills.a, EmptyMap),
         skillGroupDataById |-> indexById(data.skillGroups.a, EmptyMap),
         skillsMaster |-> EmptyMap,
         allChildIds |-> maps.skillParentMap.keys,
         total |-> Len(maps.skillParentMap.keys),
         i |-> 0,
         processed |-> 0]

\* lines 312-327: one batch, allChildIds.slice(i, i + BATCH_SIZE)
RECURSIVE buildBatch(_, _, _)
buildBatch(f, from, to) ==
    IF from > to THEN f
    ELSE LET childId == f.allChildIds[from]
             item == createEnrichedSkillItem(childId, f.skillParentMap,
                         f.skillHierarchyMap, f.skillDataById, f.skillGroupDataById)
         IN  buildBatch([f EXCEPT !.skillsMaster = MapSet(@, childId, item),
                                  !.processed = @ + 1],
                        from + 1, to)

\* lines 339-350
buildFinish(f) ==
    << updateProgress(f.req, BuildPhase, f.total, f.total, Text("Complete!", <<>>)),
       [type |-> "SKILLS_MASTER_COMPLETE", req |-> f.req,
        skillsMaster |-> ObjectFromEntries(f.skillsMaster),
        hierarchyMap |-> ObjectFromEntries(f.skillHierarchyMap),
        parentMap |-> ObjectFromEntries(f.skillParentMap)] >>

\* lines 311-350 from the loop test on, up to the next await or to the end:
\* the messages posted, the frame, and whether the build suspended.
RECURSIVE buildLoop(_, _)
buildLoop(f, msgs) ==
    IF f.i >= Len(f.allChildIds)
    THEN [suspended |-> FALSE, frame |-> f, msgs |-> msgs \o buildFinish(f)]
    ELSE LET g == buildBatch(f, f.i + 1, Min(f.i + BATCH_SIZE, Len(f.allChildIds)))
             next == [g EXCEPT !.i = f.i + BATCH_SIZE]
         IN  IF f.i % (BATCH_SIZE * 4) = 0
             THEN [suspended |-> TRUE, frame |-> next,
                   msgs |-> Append(msgs,
                              updateProgress(f.req, BuildPhase, g.processed, g.total,
                                  Text("Processed %d/%d items...",
                                       <<g.processed, g.total>>)))]
             ELSE buildLoop(next, msgs)

\* the payload makes the async function throw before its first await
buildThrows(data) ==
    data.skillHierarchy.t # "array" \/ data.skills.t # "array"
        \/ data.skillGroups.t # "array"

\* buildSkillsMaster from its call to its first await (or to its end)
buildSkillsMaster(data, req) ==
    LET first == <<updateProgress(req, BuildPhase, 0, 1,
                                  Text("Creating hierarchy maps...", <<>>))>>
    IN  IF buildThrows(data)
        THEN [suspended |-> FALSE, frame |-> [req |-> req], msgs |-> first]
        ELSE LET f == buildStart(data, req)
             IN  buildLoop(f, first \o
                     <<updateProgress(req, BuildPhase, 0, f.total,
                                      Text("Processing hierarchy items...", <<>>))>>)

(***************************************************************************)
(* data-worker.js: calculateStats, filterData, searchData (lines 407-559)  *)
(***************************************************************************)
CountType(items, type) == Cardinality({i \in 1..Len(items) : items[i].type = type})

\* lines 410-438
computeStats(wd) ==
    LET unseenOccupations == CountType(wd.occupations, "unseen")
        seenOccupations == Len(wd.occupations) - unseenOccupations
        unseenGroups == CountType(wd.groups, "unseen")
        seenGroups == Len(wd.groups) - unseenGroups
    IN  [totalOccupations |-> Len(wd.occupations),
         totalGroups |-> Len(wd.groups),
         totalSkills |-> Len(wd.skills),
         totalSkillGroups |-> Len(wd.skillGroups),
         totalItems |-> Len(wd.occupations) + Len(wd.groups) + Len(wd.skills),
         unseenOccupations |-> unseenOccupations,
         unseenGroups |-> unseenGroups,
         unseenTotal |-> unseenOccupations + unseenGroups,
         seenOccupations |-> seenOccupations,
         seenGroups |-> seenGroups,
         seenTotal |-> seenOccupations + seenGroups,
         occupationSkillRelations |-> 0]

\* a calculateStats that reports the end after it has posted the statistics
calculateStatsReportingLast(wd, req) ==
    << updateProgress(req, Text("Calculating Statistics", <<>>), 0, 1,
                      Text("Computing data metrics...", <<>>)),
       [type |-> "STATS_COMPLETE", req |-> req, stats |-> computeStats(wd)],
       updateProgress(req, Text("Calculating Statistics", <<>>), 1, 1,
                      Text("Statistics complete!", <<>>)) >>

\* calculateStats, lines 407-448: every message it posts
calculateStats(wd, req) ==
    << updateProgress(req, Text("Calculating Statistics", <<>>), 0, 1,
                      Text("Computing data metrics...", <<>>)),
       updateProgress(req, Text("Calculating Statistics", <<>>), 1, 1,
                      Text("Statistics complete!", <<>>)),
       [type |-> "STATS_COMPLETE", req |-> req, stats |-> computeStats(wd)] >>

OfType(items, type) == SelectSeq(items, LAMBDA item : item.type = type)

\* a selection that ignores the economy type
selectItemsIgnoringType(wd, category) ==
    CASE category \in {"seen-occupations", "unseen-occupations"} ->
           wd.occupations \o wd.groups
      [] category = "skills" -> wd.skills \o wd.skillGroups
      [] OTHER -> <<>>

\* the corpus selected by filterType / searchType (lines 454-470, 484-497)
selectItems(wd, category) ==
    CASE category = "seen-occupations" ->
           OfType(wd.occupations, "seen") \o OfType(wd.groups, "seen")
      [] category = "unseen-occupations" ->
           OfType(wd.occupations, "unseen") \o OfType(wd.groups, "unseen")
      [] category = "skills" -> wd.skills \o wd.skillGroups
      [] OTHER -> <<>>

filterData(wd, data, req) ==
    <<[type |-> "FILTER_COMPLETE", req |-> req,
       results |-> selectItems(wd, data.filterType),
       filterType |-> data.filterType]>>

\* a score in which altLabels count as much as the description
calculateSearchScoreFlatAltLabels(item, query) ==
    LET hasCode == "code" \in DOMAIN item /\ item.code # <<>>
        code == IF hasCode THEN toLowerCase(item.code) ELSE <<>>
        label == toLowerCase(item.label)
    IN    (IF hasCode /\ code = query THEN 1000 ELSE 0)
        + (IF hasCode /\ startsWith(code, query) THEN 500 ELSE 0)
        + (IF label = query THEN 800 ELSE 0)
        + (IF startsWith(label, query) THEN 400 ELSE 0)
        + (IF includes(label, query) THEN 200 ELSE 0)
        + (IF item.description # <<>> /\ includes(toLowerCase(item.description), query)
           THEN 100 ELSE 0)
        + (IF item.altLabels # <<>> /\ includes(toLowerCase(item.altLabels), query)
           THEN 100 ELSE 0)

\* a score that leaves the code out
calculateSearchScoreWithoutCode(item, query) ==
    LET label == toLowerCase(item.label)
    IN    (IF label = query THEN 800 ELSE 0)
        + (IF startsWith(label, query) THEN 400 ELSE 0)
        + (IF includes(label, query) THEN 200 ELSE 0)
        + (IF item.description # <<>> /\ includes(toLowerCase(item.description), query)
           THEN 100 ELSE 0)
        + (IF item.altLabels # <<>> /\ includes(toLowerCase(item.altLabels), query)
           THEN 150 ELSE 0)

\* lines 520-559
calculateSearchScore(item, query) ==
    LET hasCode == "code" \in DOMAIN item /\ item.code # <<>>
        code == IF hasCode THEN toLowerCase(item.code) ELSE <<>>
        label == toLowerCase(item.label)
    IN    (IF hasCode /\ code = query THEN 1000 ELSE 0)
        + (IF hasCode /\ startsWith(code, query) THEN 500 ELSE 0)
        + (IF label = query THEN 800 ELSE 0)
        + (IF startsWith(label, query) THEN 400 ELSE 0)
        + (IF includes(label, query) THEN 200 ELSE 0)
        + (IF item.description # <<>> /\ includes(toLowerCase(item.description), query)
           THEN 100 ELSE 0)
        + (IF item.altLabels # <<>> /\ includes(toLowerCase(item.altLabels), query)
           THEN 150 ELSE 0)

\* a sort that puts the lowest score first
RECURSIVE insertByScoreAscending(_, _)
insertByScoreAscending(sorted, r) ==
    IF sorted = <<>> THEN <<r>>
    ELSE IF Head(sorted).score <= r.score
         THEN <<Head(sorted)>> \o insertByScoreAscending(Tail(sorted), r)
         ELSE <<r>> \o sorted

\* a descending sort that puts a later item before its ties
RECURSIVE insertByScoreBeforeTies(_, _)
insertByScoreBeforeTies(sorted, r) ==
    IF sorted = <<>> THEN <<r>>
    ELSE IF Head(sorted).score > r.score
         THEN <<Head(sorted)>> \o insertByScoreBeforeTies(Tail(sorted), r)
         ELSE <<r>> \o sorted

\* results.sort((a, b) => b.score - a.score): stable, descending by score
RECURSIVE insertByScore(_, _)
insertByScore(sorted, r) ==
    IF sorted = <<>> THEN <<r>>
    ELSE IF Head(sorted).score >= r.score
         THEN <<Head(sorted)>> \o insertByScore(Tail(sorted), r)
         ELSE <<r>> \o sorted

RECURSIVE sortByScore(_)
sortByScore(rs) ==
    IF rs = <<>> THEN <<>>
    ELSE insertByScore(sortByScore(SubSeq(rs, 1, Len(rs) - 1)), rs[Len(rs)])

DefaultLimit == 100

\* a number read from text is followed up to Beyond: the arrays of the
\* model are shorter
Beyond == 100000000

\* the value of a digit of a numeric literal
digitOf(c) ==
    CASE c = "0" -> 0 [] c = "1" -> 1 [] c = "2" -> 2 [] c = "3" -> 3 [] c = "4" -> 4
      [] c = "5" -> 5 [] c = "6" -> 6 [] c = "7" -> 7 [] c = "8" -> 8 [] c = "9" -> 9
      [] c \in {"a", "A"} -> 10 [] c \in {"b", "B"} -> 11 [] c \in {"c", "C"} -> 12
      [] c \in {"d", "D"} -> 13 [] c \in {"e", "E"} -> 14 [] c \in {"f", "F"} -> 15
      [] OTHER -> 16

\* the digits of s read as a number in the given base, up to Beyond (a
\* number of more than 27 digits is beyond it in every base)
RECURSIVE digitsValue(_, _)
digitsValue(s, base) ==
    IF s = <<>> THEN 0
    ELSE Min(Beyond, base * digitsValue(SubSeq(s, 1, Len(s) - 1), base)
                        + digitOf(s[Len(s)]))

digitsToNumber(s, base) ==
    LET valueOf(digits) == IF Len(digits) > 27 THEN Beyond ELSE digitsValue(digits, base)
    IN  valueOf(stripLeadingZeros(s))

\* n * k + carry for a number n written in groups of six decimal digits
RECURSIVE timesSmall(_, _, _)
timesSmall(groups, k, carry) ==
    IF groups = <<>> THEN (IF carry = 0 THEN <<>> ELSE <<carry>>)
    ELSE LET v == k * groups[Len(groups)] + carry
         IN  Append(timesSmall(SubSeq(groups, 1, Len(groups) - 1), k, v \div 1000000),
                    v % 1000000)

\* 5^q in groups of six decimal digits
RECURSIVE powerOfFive(_)
powerOfFive(q) ==
    IF q = 0 THEN <<1>>
    ELSE IF q >= 4 THEN timesSmall(powerOfFive(q - 4), 625, 0)
    ELSE timesSmall(powerOfFive(q - 1), 5, 0)

\* the last `width` decimal digits of a number written in groups of six
digitsOfGroups(groups, width) ==
    [j \in 1..width |->
        LET r == width - j
            g == Len(groups) - (r \div 6)
        IN  IF g < 1 THEN 0 ELSE (groups[g] \div (10 ^ (r % 6))) % 10]

\* the q decimals of 1 - 2^(-q): 2^(-q) is 5^q over 10^q
decimalsBelowOne(q) ==
    LET complement(five) == [j \in 1..q |-> IF j < q THEN 9 - five[j] ELSE 10 - five[j]]
    IN  complement(digitsOfGroups(powerOfFive(q), q))

floorLog2(m) == CHOOSE k \in 0..29 : 2 ^ k <= m /\ m < 2 ^ (k + 1)

\* is the number n + 0.fraction (n >= 0, fraction its decimals as text)
\* rounded to the double n + 1?  The doubles just below m = n + 1 are
\* 2^(k - 52) apart for 2^k < m < 2^(k + 1) and 2^(k - 53) apart for
\* m = 2^k; a number no more than half that gap below m is read as m (a
\* tie goes to m, whose significand is even).
roundsToNext(n, fraction) ==
    LET given(j) == IF j <= Len(fraction) THEN digitOf(fraction[j]) ELSE 0
        \* the decimals of the fraction against those of the least fraction
        \* that is read as the next integer
        reaches(least, differ) ==
            \/ differ = {}
            \/ \E j \in differ : /\ \A i \in differ : j <= i
                                 /\ given(j) > least[j]
        against(least) ==
            reaches(least, {j \in 1..Len(least) : given(j) # least[j]})
        halfGap(q) ==
            against([j \in 1..Max(q, Len(fraction)) |->
                        IF j <= q THEN decimalsBelowOne(q)[j] ELSE 0])
        between(m, k) == halfGap(IF m = 2 ^ k THEN 54 - k ELSE 53 - k)
    IN  /\ Len(fraction) >= 7
        /\ \A j \in 1..7 : fraction[j] = "9"
        /\ between(n + 1, floorLog2(n + 1))

\* ToIntegerOrInfinity(ToNumber(s)) for a string s, up to Beyond in either
\* direction; NaN counts as 0.  StringToNumber: white space around the
\* literal is dropped and the empty text is 0; the literal is Infinity or
\* a decimal literal (digits with an optional point and an optional
\* exponent), either with an optional sign, or an unsigned hexadecimal,
\* octal or binary integer (0x, 0o, 0b); any other text is NaN.  The
\* number is the double nearest to the literal's value.
stringToInteger(s) ==
    LET signed(negative, magnitude) == IF negative THEN 0 - magnitude ELSE magnitude
        \* the digits of the literal without leading zeros, `point` of
        \* them before the point
        placed(significant, point) ==
            IF significant = <<>> \/ point < 0 THEN 0
            ELSE IF point > 9 THEN Beyond
            ELSE LET rounded(n) ==
                         IF roundsToNext(n, SubSeq(significant, point + 1, Len(significant)))
                         THEN Min(Beyond, n + 1)
                         ELSE n
                 IN  rounded(digitsToNumber(
                         [k \in 1..point |->
                             IF k <= Len(significant) THEN significant[k] ELSE "0"], 10))
        scaled(digits, significant, before) ==
            placed(significant, before - (Len(digits) - Len(significant)))
        \* a decimal literal: digits around an optional point, and the
        \* digits of an exponent when there is one
        decimal(whole, fraction, hasPower, powerNegative, powerDigits) ==
            IF /\ \A k \in 1..Len(whole) : IsDigit(whole[k])
               /\ \A k \in 1..Len(fraction) : IsDigit(fraction[k])
               /\ Len(whole) + Len(fraction) > 0
               /\ hasPower => /\ powerDigits # <<>>
                              /\ \A k \in 1..Len(powerDigits) : IsDigit(powerDigits[k])
            THEN scaled(whole \o fraction, stripLeadingZeros(whole \o fraction),
                        Len(whole) + (IF ~hasPower THEN 0
                                      ELSE signed(powerNegative,
                                                  digitsToNumber(powerDigits, 10))))
            ELSE 0
        pointed(mantissa, dot, hasPower, power) ==
            decimal(IF dot < 0 THEN mantissa ELSE SubSeq(mantissa, 1, dot),
                    IF dot < 0 THEN <<>> ELSE SubSeq(mantissa, dot + 2, Len(mantissa)),
                    hasPower,
                    power # <<>> /\ Head(power) = "-",
                    IF power # <<>> /\ Head(power) \in {"+", "-"} THEN Tail(power)
                    ELSE power)
        split(body, mantissa, mark) ==
            pointed(mantissa, indexOf(mantissa, <<".">>), mark <= Len(body),
                    SubSeq(body, mark + 1, Len(body)))
        \* the literal is cut at its first e or E
        cut(body, mark) == split(body, SubSeq(body, 1, mark - 1), mark)
        marked(body, marks) ==
            cut(body, IF marks = {} THEN Len(body) + 1
                      ELSE CHOOSE k \in marks : \A j \in marks : k <= j)
        unsigned(body) ==
            IF body = <<"I", "n", "f", "i", "n", "i", "t", "y">> THEN Beyond
            ELSE marked(body, {k \in 1..Len(body) : body[k] \in {"e", "E"}})
        prefixed(digits, base) ==
            IF digits # <<>> /\ \A k \in 1..Len(digits) : digitOf(digits[k]) < base
            THEN digitsToNumber(digits, base)
            ELSE 0
        based(text, base) ==
            IF base # 10 THEN prefixed(SubSeq(text, 3, Len(text)), base)
            ELSE signed(Head(text) = "-",
                        unsigned(IF Head(text) \in {"+", "-"} THEN Tail(text) ELSE text))
        literal(text) ==
            IF text = <<>> THEN 0
            ELSE based(text, IF Len(text) >= 2 /\ text[1] = "0"
                             THEN (CASE text[2] \in {"x", "X"} -> 16
                                     [] text[2] \in {"o", "O"} -> 8
                                     [] text[2] \in {"b", "B"} -> 2
                                     [] OTHER -> 10)
                             ELSE 10)
    IN  literal(trim(s))

\* the end position of array.slice(0, end) on an array of len elements:
\* end is converted by ToNumber and truncated to an integer (NaN counts as
\* 0), a negative end counts from the end of the array, and the result is
\* kept within 0..len.
sliceEnd(end, len) ==
    LET clamp(n) == IF n < 0 THEN Max(len + n, 0) ELSE Min(n, len)
    IN  CASE end.t = "undefined" -> len
          [] end.t = "number" -> clamp(end.n)
          [] end.t = "boolean" -> clamp(end.n)
          [] end.t = "string" -> clamp(stringToInteger(end.s))
          [] OTHER -> 0

\* a search that keeps the items that score nothing
searchDataKeepingAll(wd, data, req) ==
    IF ~IsString(data.query)
    THEN <<ErrorMessage(req, TypeError)>>
    ELSE LET queryLower == trim(toLowerCase(data.query.s))
             limit == IF data.limit.t = "undefined" THEN Num(DefaultLimit) ELSE data.limit
             searchItems == selectItems(wd, data.searchType)
             scored == [i \in 1..Len(searchItems) |->
                          [item |-> searchItems[i],
                           score |-> calculateSearchScore(searchItems[i], queryLower)]]
             results == sortByScore(scored)
             limited == SubSeq(results, 1, sliceEnd(limit, Len(results)))
         IN  <<[type |-> "SEARCH_COMPLETE", req |-> req,
                results |-> [i \in 1..Len(limited) |-> limited[i].item],
                query |-> data.query,
                totalFound |-> Len(results)]>>

\* searchData (lines 480-517) inside onmessage's try/catch
searchData(wd, data, req) ==
    IF ~IsString(data.query)
    THEN <<ErrorMessage(req, TypeError)>>
    ELSE LET queryLower == trim(toLowerCase(data.query.s))
             limit == IF data.limit.t = "undefined" THEN Num(DefaultLimit) ELSE data.limit
             searchItems == selectItems(wd, data.searchType)
             scored == [i \in 1..Len(searchItems) |->
                          [item |-> searchItems[i],
                           score |-> calculateSearchScore(searchItems[i], queryLower)]]
             results == sortByScore(SelectSeq(scored, LAMBDA r : r.score > 0))
             limited == SubSeq(results, 1, sliceEnd(limit, Len(results)))
         IN  <<[type |-> "SEARCH_COMPLETE", req |-> req,
                results |-> [i \in 1..Len(limited) |-> limited[i].item],
                query |-> data.query,
                totalFound |-> Len(results)]>>


(***************************************************************************)
(* Inputs of the worker: sample rows as the CSV parser delivers them       *)
(* (code columns stay strings, other columns are type-inferred) and the    *)
(* payloads of the commands.                                               *)
(***************************************************************************)
MaxCommands == 2

rowSeen ==
    [ID |-> Str(<<"o", "1">>), CODE |-> Str(<<"0", "1">>),
     PREFERREDLABEL |-> Str(<<"A", "b">>), DESCRIPTION |-> Str(<<"c", "a">>)]
rowUnseen ==
    [ID |-> Num(2), CODE |-> Str(<<"I", "1">>),
     PREFERREDLABEL |-> Str(<<" ", "b", "c">>), ALTLABELS |-> Str(<<"a">>)]
rowNoLabel == [ID |-> Num(3), CODE |-> Str(<<"0", "2">>), PREFERREDLABEL |-> Null]
rowNumericLabel == [ID |-> Num(4), CODE |-> Str(<<"0", "3">>), PREFERREDLABEL |-> Num(7)]
rowSkill == [ID |-> Str(<<"S", "1">>), PREFERREDLABEL |-> Str(<<"a", "b">>)]
rowSkillNoId == [ID |-> Null, PREFERREDLABEL |-> Str(<<"b">>)]
rowSkillGroup ==
    [ID |-> Str(<<"G", "1">>), CODE |-> Str(<<"S", "1">>),
     PREFERREDLABEL |-> Str(<<"C", "a">>)]
rowEdge == [PARENTID |-> Str(<<"G", "1">>), CHILDID |-> Str(<<"S", "1">>)]
rowEdgeNoChild == [PARENTID |-> Str(<<"G", "1">>), CHILDID |-> Str(<<>>)]
rowRelation == [OCCUPATIONID |-> Str(<<"o", "1">>), SKILLID |-> Str(<<"S", "1">>)]

\* an entry of results.errors: a row with fewer fields than the header
TooFewFields(row) ==
    [type |-> "FieldMismatch", code |-> "TooFewFields",
     message |-> Text("Too few fields", <<>>), row |-> row]

\* csvData stands for the text as the parser reads it: the rows it parses
\* (csvData) and the errors it reports on the text (errors)
CsvBatches ==
    {[dataType |-> "occupations", csvData |-> <<rowSeen, rowUnseen>>, errors |-> <<>>],
     [dataType |-> "occupations", csvData |-> <<rowSeen, rowNumericLabel>>, errors |-> <<>>],
     [dataType |-> "occupations", csvData |-> <<rowNoLabel>>,
      errors |-> <<TooFewFields(0)>>],
     [dataType |-> "groups", csvData |-> <<rowUnseen, rowSeen>>, errors |-> <<>>],
     [dataType |-> "skills", csvData |-> <<rowSkill, rowSkillNoId>>, errors |-> <<>>],
     [dataType |-> "skills", csvData |-> <<>>, errors |-> <<>>],
     [dataType |-> "skillGroups", csvData |-> <<rowSkillGroup>>, errors |-> <<>>],
     [dataType |-> "hierarchy", csvData |-> <<rowEdge>>, errors |-> <<>>],
     [dataType |-> "skillHierarchy", csvData |-> <<rowEdgeNoChild, rowEdge>>, errors |-> <<>>],
     [dataType |-> "occupationToSkills", csvData |-> <<rowRelation>>, errors |-> <<>>],
     [dataType |-> "other", csvData |-> <<rowSeen>>, errors |-> <<>>]}

BatchIds == {"b1", "b2"}

CsvBatchInputs ==
    {[csvData |-> b.csvData, errors |-> b.errors, dataType |-> b.dataType, batchId |-> id] :
        b \in CsvBatches, id \in BatchIds}

idG1 == Str(<<"G", "1">>)
idS1 == Str(<<"S", "1">>)
idX9 == Str(<<"X", "9">>)

Edge(p, c) == [parentId |-> p, childId |-> c]
SkillEntity(id, label) == processSkillRow([ID |-> id, PREFERREDLABEL |-> Str(label)]).e
SkillGroupEntity(id, label) ==
    processSkillGroupRow([ID |-> id, PREFERREDLABEL |-> Str(label)]).e

BuildPayloads ==
    {[skillHierarchy |-> Arr(<<>>), skills |-> Arr(<<>>), skillGroups |-> Arr(<<>>)],
     [skillHierarchy |-> Arr(<<Edge(idG1, idS1), Edge(idG1, idX9)>>),
      skills |-> Arr(<<SkillEntity(idS1, <<"a">>)>>),
      skillGroups |-> Arr(<<SkillGroupEntity(idG1, <<"b">>)>>)],
     [skillHierarchy |-> Arr(<<Edge(idX9, idG1)>>),
      skills |-> Arr(<<>>),
      skillGroups |-> Arr(<<SkillGroupEntity(idG1, <<"b">>)>>)],
     [skillHierarchy |-> NoArr, skills |-> Arr(<<>>), skillGroups |-> Arr(<<>>)]}

SearchTypes == {"skills", "seen-occupations", "unseen-occupations"}
SearchInputs ==
    {[query |-> q, searchType |-> st, limit |-> l] :
        q \in {Str(<<"b">>), Undefined}, st \in SearchTypes, l \in {Undefined, Num(1)}}

FilterInputs ==
    {[filterType |-> ft, criteria |-> Undefined] : ft \in SearchTypes \cup {"other"}}

UnknownCommands == {"PING"}

(***************************************************************************)
(* The worker's event loop.  One action is one task: a message handled by  *)
(* self.onmessage (lines 26-56) up to the end of its synchronous part, or  *)
(* a timer resuming a suspended buildSkillsMaster.                         *)
(***************************************************************************)
InitWorkerData ==
    [occupations |-> <<>>, groups |-> <<>>, skills |-> <<>>, skillGroups |-> <<>>,
     skillsMaster |-> EmptyObject, stats |-> EmptyObject]

InitProgress == ProgressRecord(Text("", <<>>), 0, 0, Text("", <<>>))

\* line 588, posted when the script has loaded; it answers no command
WorkerReady == [type |-> "WORKER_READY", req |-> 0]

WorkerIdle ==
    /\ workerData = InitWorkerData
    /\ currentProgress = InitProgress
    /\ posted = <<WorkerReady>>
    /\ received = <<>>
    /\ timers = <<>>

PostAll(msgs) ==
    /\ posted' = posted \o msgs
    /\ currentProgress' = LastProgress(currentProgress, msgs)

Deliver(command, data) ==
    /\ Len(received) < MaxCommands
    /\ received' = Append(received, [command |-> command, data |-> data])

NextReq == Len(received) + 1

HandleProcessCsvBatch(data) ==
    /\ Deliver("PROCESS_CSV_BATCH", data)
    /\ \E chunks \in Chunkings(data.csvData) :
          PostAll(processCsvBatch(data, chunks, papaResults, NextReq))
    /\ UNCHANGED <<workerData, timers, papaResults>>

HandleBuildSkillsMaster(data) ==
    /\ Deliver("BUILD_SKILLS_MASTER", data)
    /\ LET r == buildSkillsMaster(data, NextReq)
       IN  /\ PostAll(r.msgs)
           /\ timers' = IF r.suspended THEN Append(timers, r.frame) ELSE timers
    /\ UNCHANGED <<workerData, papaResults>>

HandleCalculateStats ==
    /\ Deliver("CALCULATE_STATS", Undefined)
    /\ PostAll(calculateStats(workerData, NextReq))
    /\ workerData' = [workerData EXCEPT !.stats = computeStats(workerData)]
    /\ UNCHANGED <<timers, papaResults>>

HandleFilterData(data) ==
    /\ Deliver("FILTER_DATA", data)
    /\ PostAll(filterData(workerData, data, NextReq))
    /\ UNCHANGED <<workerData, timers, papaResults>>

HandleSearchData(data) ==
    /\ Deliver("SEARCH_DATA", data)
    /\ PostAll(searchData(workerData, data, NextReq))
    /\ UNCHANGED <<workerData, timers, papaResults>>

\* an unknown command that also drops the suspended builds
HandleUnknownDroppingTimers(command) ==
    /\ Deliver(command, Undefined)
    /\ PostAll(<<ErrorMessage(NextReq, Text("Unknown command: %s", <<command>>))>>)
    /\ timers' = <<>>
    /\ UNCHANGED <<workerData, papaResults>>

HandleUnknown(command) ==
    /\ Deliver(command, Undefined)
    /\ PostAll(<<ErrorMessage(NextReq, Text("Unknown command: %s", <<command>>))>>)
    /\ UNCHANGED <<workerData, timers, papaResults>>

\* self.onerror (lines 578-585), reached by an exception that escapes
\* onmessage.  The host hands the handler either an error event, whose
\* message, filename and lineno the handler reads, or the message text
\* followed by the location, and then the three properties read from the
\* text are undefined.
onerror(req, handedEvent) ==
    IF handedEvent
    THEN [type |-> "ERROR", req |-> req, error |-> Text("Uncaught %s", <<"TypeError">>),
          filename |-> Str(<<"d", "a", "t", "a", "-", "w", "o", "r", "k", "e", "r", ".",
                             "j", "s">>),
          lineno |-> Num(27)]
    ELSE [type |-> "ERROR", req |-> req, error |-> Undefined,
          filename |-> Undefined, lineno |-> Undefined]

\* a message whose data is null or undefined: line 27 destructures e.data
\* outside the try block, the TypeError escapes onmessage and the host
\* reports it to self.onerror.  The message is recorded in `received`
\* with no command.
HandleMalformed(eData, handedEvent) ==
    /\ Deliver("", eData)
    /\ PostAll(<<onerror(NextReq, handedEvent)>>)
    /\ UNCHANGED <<workerData, timers, papaResults>>

\* the timer of line 335 fires: the oldest suspended build resumes
ResumeBuild ==
    /\ timers # <<>>
    /\ LET r == buildLoop(Head(timers), <<>>)
       IN  /\ PostAll(r.msgs)
           /\ timers' = IF r.suspended THEN Append(Tail(timers), r.frame)
                        ELSE Tail(timers)
    /\ UNCHANGED <<workerData, received, papaResults>>


(***************************************************************************)
(* performance-manager.js: processInChunks / processChunk / cancel         *)
(* (lines 26-101, 233-237).  A frame is one call of processInChunks; an    *)
(* action runs it from one await to the next.  The awaits are: the         *)
(* handler's result (line 90), processChunk's result (line 48) and         *)
(* yieldToMain (line 66).  Elapsed time is the host's: whether a chunk     *)
(* exceeded yieldThreshold is a free choice.  Of updateMetrics only the    *)
(* operation counter is kept; the averages are functions of elapsed time.  *)
(***************************************************************************)
DefaultChunkSize == 100

\* an options object without the property (an own property whose value is
\* undefined is the value Undefined)
Absent == [t |-> "absent", s |-> <<>>, n |-> 0]

\* constructor, lines 6-13: chunkSize: options.chunkSize || 100, then
\* ...options copies an own chunkSize property over it, whatever its value
constructorChunkSize(opt) == IF opt = Absent THEN Num(DefaultChunkSize) ELSE opt

\* line 28: { ...this.options, ...options }
effectiveChunkSize(ctorOpt, callOpt) ==
    IF callOpt = Absent THEN constructorChunkSize(ctorOpt) ELSE callOpt

\* ToNumber of a chunk size that is a number, a boolean or null; undefined
\* converts to NaN
sizeNumber(size) == IF size.t \in {"number", "boolean"} THEN size.n ELSE 0

\* array.slice(start, end) for integers: a negative position counts from
\* the end, and both are kept within the array
slice(items, start, end) ==
    LET len == Len(items)
        from == IF start < 0 THEN Max(len + start, 0) ELSE Min(start, len)
        to == IF end < 0 THEN Max(len + end, 0) ELSE Min(end, len)
    IN  IF to > from THEN SubSeq(items, from + 1, to) ELSE <<>>

\* items.slice(i, i + chunkSize): i + undefined is NaN, an end of 0
chunkAt(items, i, size) ==
    IF size.t = "undefined" THEN slice(items, i, 0)
    ELSE slice(items, i, i + sizeNumber(size))

\* The handlers the runs are given.  A handler returns a value, throws,
\* or returns a promise that rejects.
Returned(v) == [k |-> "value", v |-> v]
Thrown == [k |-> "throw", v |-> Undefined]
Rejected == [k |-> "reject", v |-> Undefined]

processor(handler, item) ==
    CASE handler = "identity" -> Returned(item)
      [] handler = "throwsOnTwo" ->
           IF item = Num(2) THEN Thrown ELSE Returned(Num(item.n + 10))
      [] handler = "rejectsOnTwo" ->
           IF item = Num(2) THEN Rejected ELSE Returned(Num(item.n + 10))
      [] handler = "nullOnTwo" ->
           IF item = Num(2) THEN Returned(Null) ELSE Returned(Num(item.n + 10))
      [] OTHER -> \* "throwsOnTwoNullOnOne"
           IF item = Num(2) THEN Thrown
           ELSE IF item = Num(1) THEN Returned(Null)
           ELSE Returned(Num(item.n + 10))

\* a processChunk that gives up the rest of the chunk when the handler throws
advanceItemsAbortingChunk(f) ==
    IF f.j >= Len(f.chunk) THEN [f EXCEPT !.pc = "chunkDone"]
    ELSE LET item == f.chunk[f.j + 1]
             g == [f EXCEPT !.j = @ + 1, !.handled = Append(@, item)]
         IN  IF processor(f.handler, item).k = "throw" THEN [g EXCEPT !.pc = "chunkDone"]
             ELSE [g EXCEPT !.pc = "item"]

\* processChunk, lines 88-98, from the item after position f.j: the handler
\* is called on each item in turn; a synchronous throw is caught and the
\* loop goes on; anything else is awaited.
RECURSIVE advanceItems(_)
advanceItems(f) ==
    IF f.j >= Len(f.chunk) THEN [f EXCEPT !.pc = "chunkDone"]
    ELSE LET item == f.chunk[f.j + 1]
             g == [f EXCEPT !.j = @ + 1, !.handled = Append(@, item)]
         IN  IF processor(f.handler, item).k = "throw" THEN advanceItems(g)
             ELSE [g EXCEPT !.pc = "item"]

\* line 90-93, the awaited handler result arrives
settleItem(f) ==
    LET o == processor(f.handler, f.chunk[f.j])
    IN  IF o.k = "value" /\ ~IsNullish(o.v)
        THEN [f EXCEPT !.chunkResults = Append(@, o.v)]
        ELSE f

\* a loop that never looks at the cancellation token's flag
loopHeadIgnoringCancel(f, token, toks) ==
    IF f.i >= Len(f.items) THEN [f EXCEPT !.pc = "done"]
    ELSE IF token = 0 THEN [f EXCEPT !.pc = "failed"]
    ELSE advanceItems([f EXCEPT
            !.chunk = chunkAt(f.items, f.i, f.chunkSize),
            !.j = 0,
            !.chunkResults = <<>>,
            !.chunks = @ + 1])

\* lines 38-48: the loop test, the cancellation check, the next chunk.
\* token is this.cancelToken as read at line 40.
loopHead(f, token, toks) ==
    IF f.i >= Len(f.items) THEN [f EXCEPT !.pc = "done"]
    ELSE IF token = 0 THEN [f EXCEPT !.pc = "failed"]
    ELSE IF toks[token] THEN [f EXCEPT !.pc = "done"]
    ELSE advanceItems([f EXCEPT
            !.chunk = chunkAt(f.items, f.i, f.chunkSize),
            !.j = 0,
            !.chunkResults = <<>>,
            !.chunks = @ + 1])

\* lines 49-61: the chunk's results are appended and progress is reported
pushChunk(f) ==
    LET processed == f.processed + Len(f.chunk)
    IN  [f EXCEPT !.results = @ \o f.chunkResults,
                  !.processed = processed,
                  !.progress = IF f.observer = "none" THEN @
                               ELSE Append(@, [processed |-> processed,
                                               total |-> Len(f.items),
                                               percentage |->
                                                   Percentage(processed, Len(f.items))])]

Ended(f) == f.pc \in {"done", "failed"}

NewFrame(items, handler, chunkSize, observer) ==
    [items |-> items, handler |-> handler, chunkSize |-> chunkSize,
     observer |-> observer, i |-> 0, chunk |-> <<>>, j |-> 0,
     chunkResults |-> <<>>, results |-> <<>>, processed |-> 0,
     handled |-> <<>>, progress |-> <<>>, chunks |-> 0, token |-> 0,
     pc |-> "start"]

\* cancel(), lines 233-237, on the token store
cancelled(toks, token) ==
    IF token # 0 THEN [toks EXCEPT ![token] = TRUE] ELSE toks

\* The iteration count of a frame and totalOperations are followed up to
\* MaxCounted: a run whose loop never ends then passes through finitely
\* many states.
MaxCounted == 6

Counted(n) == Min(n, MaxCounted)

\* the frame's step ends: the finally block (lines 78-81) when it ended
Settle(r, f, toks) ==
    /\ runs' = [runs EXCEPT ![r] = [f EXCEPT !.chunks = Counted(@)]]
    /\ IF Ended(f)
       THEN isProcessing' = FALSE /\ cancelToken' = 0
       ELSE UNCHANGED <<isProcessing, cancelToken>>
    /\ tokens' = toks


MaxItems == 3
MaxCancels == 1

ItemValues == {Num(1), Num(2), Null}
RECURSIVE SeqsUpTo(_, _)
SeqsUpTo(S, n) ==
    IF n = 0 THEN {<<>>}
    ELSE LET shorter == SeqsUpTo(S, n - 1)
         IN  shorter \cup {Append(s, x) : s \in {q \in shorter : Len(q) = n - 1}, x \in S}

Handlers ==
    {"identity", "throwsOnTwo", "rejectsOnTwo", "nullOnTwo", "throwsOnTwoNullOnOne"}
ChunkSizeOptions == {Absent, Num(1), Num(2)}
Observers == {"none", "reports", "cancels", "throws"}

\* where every run stands, for the cancel log
Standing(rs) == [r \in 1..Len(rs) |-> [pc |-> rs[r].pc, chunks |-> rs[r].chunks]]

\* processInChunks is called (lines 26-48, up to the first await)
StartRun(items, handler, ctorOpt, callOpt, observer) ==
    LET tok == Len(tokens) + 1
        toks == Append(tokens, FALSE)
        f0 == [NewFrame(items, handler, effectiveChunkSize(ctorOpt, callOpt), observer)
                  EXCEPT !.token = tok]
        f == loopHead(f0, tok, toks)
    IN  /\ runs' = Append(runs, f)
        /\ tokens' = toks
        /\ isProcessing' = ~Ended(f)
        /\ cancelToken' = IF Ended(f) THEN 0 ELSE tok
        /\ UNCHANGED <<totalOperations, cancelLog>>

\* processInChunks is called with items that are null or undefined: the
\* flag and the token are set (lines 30-31) and items.length of line 34
\* throws before the try block of line 37 is entered; the promise rejects
\* and the finally block never runs.  The frame keeps no items.
StartRunWithoutItems(handler, ctorOpt, callOpt, observer) ==
    LET tok == Len(tokens) + 1
        f == [NewFrame(<<>>, handler, effectiveChunkSize(ctorOpt, callOpt), observer)
                 EXCEPT !.token = tok, !.pc = "threw"]
    IN  /\ runs' = Append(runs, f)
        /\ tokens' = Append(tokens, FALSE)
        /\ isProcessing' = TRUE
        /\ cancelToken' = tok
        /\ UNCHANGED <<totalOperations, cancelLog>>

\* the handler's awaited result arrives (line 90)
ResumeItem(r) ==
    /\ runs[r].pc = "item"
    /\ Settle(r, advanceItems(settleItem(runs[r])), tokens)
    /\ UNCHANGED <<totalOperations, cancelLog>>

\* a loop whose slices leave one item out between chunks
nextIterationSkippingOne(f, token, toks) ==
    loopHead([f EXCEPT !.i = @ + sizeNumber(f.chunkSize) + 1], token, toks)

\* lines 63-71 without a yield, then the loop again: i += chunkSize makes
\* i NaN when the chunk size is undefined, and i < totalItems then fails
nextIteration(f, token, toks) ==
    IF f.chunkSize.t = "undefined" THEN [f EXCEPT !.pc = "done"]
    ELSE loopHead([f EXCEPT !.i = @ + sizeNumber(f.chunkSize)], token, toks)

\* processChunk's awaited result arrives (lines 48-71); slow tells whether
\* the chunk took longer than yieldThreshold
ResumeChunk(r, slow) ==
    /\ runs[r].pc = "chunkDone"
    /\ LET g == pushChunk(runs[r])
           cancels == g.observer = "cancels"
           toks == IF cancels THEN cancelled(tokens, cancelToken) ELSE tokens
       IN  /\ cancelLog' =
                 IF cancels
                 THEN Append(cancelLog,
                             [token |-> cancelToken,
                              at |-> [Standing(runs) EXCEPT ![r].pc = "observer"]])
                 ELSE cancelLog
           /\ IF g.observer = "throws"
              THEN Settle(r, [g EXCEPT !.pc = "failed"], toks)
                   /\ UNCHANGED totalOperations
              ELSE IF slow
              THEN Settle(r, [g EXCEPT !.pc = "yield"], toks)
                   /\ UNCHANGED totalOperations
              ELSE Settle(r, nextIteration(g, cancelToken, toks), toks)
                   /\ totalOperations' = Counted(totalOperations + 1)

\* yieldToMain's timer fires (lines 66-71), then the loop again
ResumeYield(r) ==
    /\ runs[r].pc = "yield"
    /\ Settle(r, nextIteration(runs[r], cancelToken, tokens), tokens)
    /\ totalOperations' = Counted(totalOperations + 1)
    /\ UNCHANGED cancelLog

\* a cancel() that makes a cancelled token when the instance holds none
CancelMakingToken ==
    /\ Len(cancelLog) < MaxCancels
    /\ IF cancelToken = 0
       THEN tokens' = Append(tokens, TRUE) /\ cancelToken' = Len(tokens) + 1
       ELSE tokens' = cancelled(tokens, cancelToken) /\ UNCHANGED cancelToken
    /\ cancelLog' = Append(cancelLog, [token |-> cancelToken, at |-> Standing(runs)])
    /\ UNCHANGED <<isProcessing, totalOperations, runs>>

\* cancel() is called by the host or by another task (lines 233-237)
Cancel ==
    /\ Len(cancelLog) < MaxCancels
    /\ tokens' = cancelled(tokens, cancelToken)
    /\ cancelLog' = Append(cancelLog, [token |-> cancelToken, at |-> Standing(runs)])
    /\ UNCHANGED <<isProcessing, cancelToken, totalOperations, runs>>

\* updateMetrics(frameTime), lines 240-267, called by the host: the
\* operation counter grows by one
UpdateMetrics ==
    /\ totalOperations' = Counted(totalOperations + 1)
    /\ UNCHANGED <<isProcessing, cancelToken, tokens, runs, cancelLog>>

\* resetMetrics(), lines 293-300: the metrics start again
ResetMetrics ==
    /\ totalOperations' = 0
    /\ UNCHANGED <<isProcessing, cancelToken, tokens, runs, cancelLog>>

ManagerIdle ==
    /\ isProcessing = FALSE
    /\ cancelToken = 0
    /\ tokens = <<>>
    /\ totalOperations = 0
    /\ runs = <<>>
    /\ cancelLog = <<>>

(***************************************************************************)
(* performance-manager.js: loadDataProgressively / loadDataSource          *)
(* (lines 182-230).  A source is read from its url, its data or its        *)
(* loader; reading a url or running a loader succeeds or fails as the      *)
(* host decides.                                                           *)
(***************************************************************************)
MaxSources == 2

SourceKeys == {"occupations", "skills", "groups"}
SourceKinds == {"url", "data", "loader", "invalid"}
Priorities == {Undefined, Num(1), Num(2)}

\* (a[1].priority || 0)
priorityOf(source) == IF Truthy(source.priority) THEN source.priority.n ELSE 0

\* Object.entries(dataSources).sort(...) of line 187: stable, ascending
RECURSIVE insertByPriority(_, _)
insertByPriority(sorted, e) ==
    IF sorted = <<>> THEN <<e>>
    ELSE IF priorityOf(Head(sorted)) <= priorityOf(e)
         THEN <<Head(sorted)>> \o insertByPriority(Tail(sorted), e)
         ELSE <<e>> \o sorted

RECURSIVE sortByPriority(_)
sortByPriority(entries) ==
    IF entries = <<>> THEN <<>>
    ELSE insertByPriority(sortByPriority(SubSeq(entries, 1, Len(entries) - 1)),
                          entries[Len(entries)])

Loaded(key) == [from |-> "source", key |-> key]
Fallback(key) == [from |-> "fallback", key |-> key]
EmptyList == [from |-> "empty", key |-> ""]

\* line 208: source.fallback || []
fallbackOf(source) == IF source.hasFallback THEN Fallback(source.key) ELSE EmptyList

\* loadDataSource, lines 216-230: whether the source can be read at all
\* ("invalid" has no url, data or loader and throws)
loadDataSource(source, hostOk) ==
    CASE source.kind = "data" -> TRUE
      [] source.kind = "invalid" -> FALSE
      [] OTHER -> hostOk

SetResult(results, key, data) ==
    [k \in DOMAIN results \cup {key} |-> IF k = key THEN data ELSE results[k]]

\* lines 191-212 for the source at position l.k, after loadDataSource
\* settled: the result is stored and the call yields, or the catch block
\* stores the fallback and the loop goes on to the next source
afterLoad(l, ok) ==
    LET source == l.sources[l.k]
    IN  IF ok
        THEN [l EXCEPT !.results = SetResult(@, source.key, Loaded(source.key)),
                       !.pc = "yield"]
        ELSE [l EXCEPT !.results = SetResult(@, source.key, fallbackOf(source)),
                       !.failed = @ \cup {source.key},
                       !.k = @ + 1,
                       !.pc = IF l.k + 1 > Len(l.sources) THEN "returned" ELSE "loading"]

LoadIdle == load = [pc |-> "idle"]

\* loadDataProgressively is called (lines 182-200, up to the first await)
StartLoad(dataSources) ==
    /\ load.pc = "idle"
    /\ load' = [sources |-> sortByPriority(dataSources), k |-> 1,
                results |-> <<>>, failed |-> {},
                pc |-> IF dataSources = <<>> THEN "returned" ELSE "loading"]

\* the awaited loadDataSource settles (lines 200-209)
ResumeLoad(hostOk) ==
    /\ load.pc = "loading"
    /\ load' = afterLoad(load, loadDataSource(load.sources[load.k], hostOk))

\* the awaited yieldToMain settles (line 204), then the next source
ResumeLoadYield ==
    /\ load.pc = "yield"
    /\ load' = [load EXCEPT !.k = @ + 1,
                            !.pc = IF load.k + 1 > Len(load.sources)
                                   THEN "returned" ELSE "loading"]

Sources ==
    [key : SourceKeys, priority : Priorities, kind : SourceKinds, hasFallback : BOOLEAN]

DataSources ==
    {s \in SeqsUpTo(Sources, MaxSources) :
        \A a, b \in 1..Len(s) : a # b => s[a].key # s[b].key}

(***************************************************************************)
(* performance-manager.js: renderInChunks (lines 117-179).  The renderer   *)
(* is called inside chunk.forEach without a try block; the container and   *)
(* the document fragment are the sequences of the elements they hold.      *)
(***************************************************************************)
Renderers == {"element", "html", "throwsOnTwo", "nullOnTwo"}
RenderObservers == {"none", "reports", "throws"}

\* an element made by the renderer, or parsed from the HTML it returned
Element(item, index) == [item |-> item, index |-> index, from |-> "node"]
Parsed(item, index) == [item |-> item, index |-> index, from |-> "html"]

\* renderer(item, i + index) of line 133
renderer(name, item, index) ==
    CASE name = "throwsOnTwo" /\ item = Num(2) -> [k |-> "throw"]
      [] name = "nullOnTwo" /\ item = Num(2) -> [k |-> "nothing"]
      [] name = "html" -> [k |-> "element", e |-> Parsed(item, index)]
      [] OTHER -> [k |-> "element", e |-> Element(item, index)]

\* chunk.forEach of lines 132-143, from item f.j on
RECURSIVE renderItems(_)
renderItems(f) ==
    IF f.j >= Len(f.chunk) THEN f
    ELSE LET out == renderer(f.renderer, f.chunk[f.j + 1], f.i + f.j)
         IN  IF out.k = "throw" THEN [f EXCEPT !.pc = "threw"]
             ELSE renderItems([f EXCEPT
                     !.j = @ + 1,
                     !.fragment = IF out.k = "element" THEN Append(@, out.e) ELSE @])

\* container.appendChild(fragment) when the fragment holds elements
flushFragment(f) == [f EXCEPT !.container = @ \o f.fragment, !.fragment = <<>>]

\* lines 145-160: the count, the append and the progress report.  The
\* report is handed to the observer, which then returns or throws.
afterRenderChunk(f) ==
    LET renderedCount == f.renderedCount + Len(f.chunk)
        g == flushFragment([f EXCEPT !.renderedCount = renderedCount])
        reported == [g EXCEPT !.progress =
                        Append(@, [rendered |-> renderedCount,
                                   total |-> Len(f.items),
                                   percentage |-> Percentage(renderedCount,
                                                             Len(f.items))])]
    IN  CASE f.observer = "none" -> g
          [] f.observer = "throws" -> [reported EXCEPT !.pc = "threw"]
          [] OTHER -> reported

\* the loop of lines 125-167 from its head, up to the next await or to the
\* end; the chunk numbered slowAfter from here is the one that takes longer
\* than yieldThreshold.  token is this.cancelToken as read at line 126.
RECURSIVE renderLoop(_, _, _, _)
renderLoop(f, token, toks, slowAfter) ==
    IF f.i >= Len(f.items) THEN [f EXCEPT !.pc = "returned"]
    ELSE IF token = 0 THEN [f EXCEPT !.pc = "threw"]
    ELSE IF toks[token] THEN [f EXCEPT !.pc = "returned"]
    ELSE LET g == renderItems([f EXCEPT
                     !.chunk = chunkAt(f.items, f.i, f.chunkSize),
                     !.j = 0,
                     !.chunks = @ + 1])
         IN  IF g.pc = "threw" THEN g
             ELSE LET h == afterRenderChunk(g)
                  IN  IF h.pc = "threw" THEN h
                      ELSE IF slowAfter = 1 THEN [h EXCEPT !.pc = "yield"]
                      ELSE IF f.chunkSize.t = "undefined"
                      THEN [h EXCEPT !.pc = "returned"]
                      ELSE renderLoop([h EXCEPT !.i = @ + sizeNumber(f.chunkSize)],
                                      token, toks, slowAfter - 1)

RenderEnded(f) == f.pc \in {"returned", "threw"}

\* the step of the render ends: the finally block (lines 169-177) when the
\* call returned or threw
SettleRender(f, processing, token) ==
    /\ render' = IF RenderEnded(f) THEN flushFragment(f) ELSE f
    /\ IF RenderEnded(f)
       THEN isProcessing' = FALSE /\ cancelToken' = 0
       ELSE isProcessing' = processing /\ cancelToken' = token

RenderIdle == render = [pc |-> "idle"]

\* renderInChunks is called (lines 117-165, up to the first await)
StartRender(items, name, callOpt, observer, slowAfter) ==
    LET tok == Len(tokens) + 1
        toks == Append(tokens, FALSE)
        f0 == [items |-> items, renderer |-> name,
               chunkSize |-> effectiveChunkSize(Absent, callOpt),
               observer |-> observer, i |-> 0, chunk |-> <<>>, j |-> 0,
               fragment |-> <<>>, container |-> <<>>, renderedCount |-> 0,
               progress |-> <<>>, chunks |-> 0, token |-> tok, pc |-> "start"]
    IN  /\ render.pc = "idle"
        /\ tokens' = toks
        /\ SettleRender(renderLoop(f0, tok, toks, slowAfter), TRUE, tok)
        /\ UNCHANGED <<totalOperations, runs, cancelLog>>

\* renderInChunks is called with items that are null or undefined: the
\* flag and the token are set (lines 122-123) and items.length of line 125
\* throws inside the try block, so the finally block runs
StartRenderWithoutItems(name, callOpt, observer) ==
    LET tok == Len(tokens) + 1
        f0 == [items |-> <<>>, renderer |-> name,
               chunkSize |-> effectiveChunkSize(Absent, callOpt),
               observer |-> observer, i |-> 0, chunk |-> <<>>, j |-> 0,
               fragment |-> <<>>, container |-> <<>>, renderedCount |-> 0,
               progress |-> <<>>, chunks |-> 0, token |-> tok, pc |-> "threw"]
    IN  /\ render.pc = "idle"
        /\ tokens' = Append(tokens, FALSE)
        /\ SettleRender(f0, TRUE, tok)
        /\ UNCHANGED <<totalOperations, runs, cancelLog>>

\* yieldToMain's timer fires (lines 163-165), then the loop again
ResumeRenderYield(slowAfter) ==
    /\ render.pc = "yield"
    /\ SettleRender(IF render.chunkSize.t = "undefined"
                    THEN [render EXCEPT !.pc = "returned"]
                    ELSE renderLoop([render EXCEPT !.i = @ + sizeNumber(render.chunkSize)],
                                    cancelToken, tokens, slowAfter),
                    isProcessing, cancelToken)
    /\ UNCHANGED <<tokens, totalOperations, runs, cancelLog>>

(***************************************************************************)
(* VirtualScroller (unnamed/part_000 lines 4-252).  The scroller keeps     *)
(* the item list, the visible range it last rendered for, and the scroll   *)
(* position last reported; content is what the content element holds: the  *)
(* rendered items with their indices and whether each was drawn as        *)
(* selected.  The container's height (clientHeight) and the position it    *)
(* is scrolled to (position, container.scrollTop) are the browser's; the   *)
(* scroll handler is throttled by a 16 ms timer.  handled tells that       *)
(* handleScroll has run since scrollTop was last set and since the         *)
(* container's height last changed.                                        *)
(***************************************************************************)
DefaultItemHeight == 44
DefaultBuffer == 10
DefaultOverscan == 5
DefaultThreshold == 100

\* lines 7-13: the default is used for an option that is not given; a given
\* option is copied over it by ...options
optionOr(options, name, dflt) == IF name \in DOMAIN options THEN options[name] ELSE dflt

\* the constructor and init(), lines 5-70
NewScroller(options, clientHeight) ==
    [options |-> [itemHeight |-> optionOr(options, "itemHeight", DefaultItemHeight),
                  buffer |-> optionOr(options, "buffer", DefaultBuffer),
                  overscan |-> optionOr(options, "overscan", DefaultOverscan),
                  threshold |-> optionOr(options, "threshold", DefaultThreshold)],
     items |-> <<>>,
     visibleStart |-> 0,
     visibleEnd |-> 0,
     scrollTop |-> 0,
     containerHeight |-> clientHeight,
     totalHeight |-> 0,
     content |-> <<>>,
     topSpacer |-> 0,
     bottomSpacer |-> 0,
     renderCount |-> 0,
     scrollTimeout |-> FALSE,
     clientHeight |-> clientHeight,
     position |-> 0,
     handled |-> FALSE,
     attached |-> TRUE]

\* how far the container can be scrolled: the viewport is totalHeight
\* high, and a container that no longer holds the viewport does not scroll
Extent(s) == IF s.attached THEN Max(0, s.totalHeight - s.clientHeight) ELSE 0

\* lines 115-119; the browser keeps the position within the new extent
updateMeasurements(s) ==
    LET u == [s EXCEPT !.containerHeight = s.clientHeight,
                       !.totalHeight = Len(s.items) * s.options.itemHeight]
    IN  [u EXCEPT !.position = Min(@, Extent(u))]

\* isItemSelected: lines 212-215, and lines 317-319 for a tree
isItemSelected(s, item) ==
    IF "selectedNode" \in DOMAIN s
    THEN s.selectedNode = OrElse(Col(item, "id"), Col(item, "code"))
    ELSE FALSE

\* items.slice(from, to).map(renderItem), lines 172-176: slice counts a
\* negative position from the end of the array, and each item is rendered
\* with the index from + its place in the slice
Rendered(s, from, to) ==
    LET len == Len(s.items)
        first == IF from < 0 THEN Max(len + from, 0) ELSE Min(from, len)
        last == IF to < 0 THEN Max(len + to, 0) ELSE Min(to, len)
    IN  [k \in 1..Max(0, last - first) |->
            [item |-> s.items[first + k], index |-> from + k - 1,
             selected |-> isItemSelected(s, s.items[first + k])]]

\* lines 190-199
renderAll(s) ==
    [s EXCEPT !.content = Rendered(s, 0, Len(s.items)),
              !.topSpacer = 0,
              !.bottomSpacer = 0]

\* a render that leaves the buffer out
renderWithoutBuffer(s) ==
    IF Len(s.items) = 0 THEN [s EXCEPT !.content = <<>>]
    ELSE IF Len(s.items) <= s.options.threshold THEN renderAll(s)
    ELSE LET bufferStart == Max(0, s.visibleStart)
             bufferEnd == Min(Len(s.items), s.visibleEnd)
         IN  [s EXCEPT !.topSpacer = bufferStart * s.options.itemHeight,
                       !.bottomSpacer = (Len(s.items) - bufferEnd) * s.options.itemHeight,
                       !.content = Rendered(s, bufferStart, bufferEnd),
                       !.renderCount = Counted(@ + 1)]

\* VirtualScroller.render(), lines 145-188
renderVisible(s) ==
    IF Len(s.items) = 0 THEN [s EXCEPT !.content = <<>>]
    ELSE IF Len(s.items) <= s.options.threshold THEN renderAll(s)
    ELSE LET bufferStart == Max(0, s.visibleStart - s.options.buffer)
             bufferEnd == Min(Len(s.items), s.visibleEnd + s.options.buffer)
         IN  [s EXCEPT !.topSpacer = bufferStart * s.options.itemHeight,
                       !.bottomSpacer = (Len(s.items) - bufferEnd) * s.options.itemHeight,
                       !.content = Rendered(s, bufferStart, bufferEnd),
                       !.renderCount = Counted(@ + 1)]

\* setItems, lines 103-113: this.items is the array given
setItems(s, items) ==
    LET given == IF "oneArray" \in DOMAIN s
                 THEN [s EXCEPT !.items = items, !.oneArray = FALSE]
                 ELSE [s EXCEPT !.items = items]
        u == updateMeasurements(given)
    IN  IF Len(u.items) > u.options.threshold THEN renderVisible(u) ELSE renderAll(u)

Abs(n) == IF n < 0 THEN -n ELSE n

\* Math.ceil(a / b) for b > 0
CeilDiv(a, b) == -((-a) \div b)

\* handleScroll, lines 121-143 (no onScroll callback is given)
handleScroll(s) ==
    LET newVisibleStart == s.scrollTop \div s.options.itemHeight
        visibleCount == CeilDiv(s.containerHeight, s.options.itemHeight)
        newVisibleEnd == newVisibleStart + visibleCount
    IN  IF \/ Abs(newVisibleStart - s.visibleStart) > s.options.overscan
           \/ Abs(newVisibleEnd - s.visibleEnd) > s.options.overscan
        THEN renderVisible([s EXCEPT !.visibleStart = newVisibleStart,
                                     !.visibleEnd = newVisibleEnd])
        ELSE s

\* the scroll listener, lines 75-83: the container's position is taken,
\* and the timer is set unless one is pending
scrollListener(s) ==
    [s EXCEPT !.scrollTop = s.position, !.scrollTimeout = TRUE, !.handled = FALSE]

\* the timer's callback, lines 79-82
scrollTimer(s) == [handleScroll(s) EXCEPT !.scrollTimeout = FALSE, !.handled = TRUE]

\* the ResizeObserver's callback, lines 86-89
resizeObserved(s) == renderVisible(updateMeasurements(s))

\* the IntersectionObserver's callback, lines 93-99, for one entry
intersectionObserved(s, isIntersecting) == IF isIntersecting THEN renderVisible(s) ELSE s

\* scrollToItem, lines 217-222: the container is moved as far as it can be
scrollToItem(s, index) ==
    LET targetScrollTop == index * s.options.itemHeight
    IN  [handleScroll([s EXCEPT !.position = Max(0, Min(targetScrollTop, Extent(s))),
                                !.scrollTop = targetScrollTop])
            EXCEPT !.handled = TRUE]

\* lines 224-226
scrollToTop(s) == scrollToItem(s, 0)

\* destroy, lines 248-251: the container is emptied, so the viewport
\* leaves it and its position goes back to 0; the scroller keeps its state
\* and its listeners
destroy(s) == [s EXCEPT !.attached = FALSE, !.position = 0]

\* updateItem, lines 236-246: the item is written into the array this.items
\* is, which for a tree is flattenedItems too when setTreeData gave it
updateItem(s, index, newItem) ==
    IF index >= 0 /\ index < Len(s.items)
    THEN LET u == IF "oneArray" \in DOMAIN s /\ s.oneArray
                  THEN [s EXCEPT !.items[index + 1] = newItem,
                                 !.flattenedItems[index + 1] = newItem]
                  ELSE [s EXCEPT !.items[index + 1] = newItem]
         IN  IF /\ index >= s.visibleStart - s.options.buffer
                /\ index <= s.visibleEnd + s.options.buffer
             THEN renderVisible(u)
             ELSE u
    ELSE s

(***************************************************************************)
(* TreeVirtualScroller (unnamed/part_000 lines 255-350).  A node is a      *)
(* record with an id or a code and, when it has any, a children list.      *)
(* originalTreeData is a property no method of the class assigns: it       *)
(* reads as undefined.  oneArray tells that this.items and                 *)
(* this.flattenedItems are the same array.                                 *)
(***************************************************************************)
TreeItemHeight == 48
TreeThreshold == 200

\* node.id || node.code
nodeKey(node) == OrElse(Col(node, "id"), Col(node, "code"))

\* node.children && node.children.length > 0
hasChildren(node) ==
    IF "children" \in DOMAIN node THEN Bool(Len(node.children) > 0) ELSE Undefined

\* flattenTree, lines 274-299, over an array of nodes
RECURSIVE flattenNodes(_, _, _)
flattenNodes(nodes, level, expandedNodes) ==
    IF nodes = <<>> THEN <<>>
    ELSE LET node == Head(nodes)
             isExpanded == nodeKey(node) \in expandedNodes
             entry == [field \in DOMAIN node \cup {"level", "hasChildren", "isExpanded"} |->
                          CASE field = "level" -> Num(level)
                            [] field = "hasChildren" -> hasChildren(node)
                            [] field = "isExpanded" -> Bool(isExpanded)
                            [] OTHER -> node[field]]
             below == IF Truthy(hasChildren(node)) /\ isExpanded
                      THEN flattenNodes(node.children, level + 1, expandedNodes)
                      ELSE <<>>
         IN  <<entry>> \o below \o flattenNodes(Tail(nodes), level, expandedNodes)

\* flattenTree(nodes): nothing for what is not an array (line 277)
flattenTree(treeData, expandedNodes) ==
    IF treeData.t = "array" THEN flattenNodes(treeData.a, 0, expandedNodes) ELSE <<>>

\* the constructor, lines 256-266
NewTreeScroller(options, clientHeight) ==
    LET given == [name \in DOMAIN options \cup {"itemHeight", "threshold"} |->
                     IF name \in DOMAIN options THEN options[name]
                     ELSE IF name = "itemHeight" THEN TreeItemHeight ELSE TreeThreshold]
        s == NewScroller(given, clientHeight)
    IN  [field \in DOMAIN s \cup {"expandedNodes", "selectedNode", "flattenedItems", "originalTreeData", "calls", "oneArray"} |->
            CASE field = "expandedNodes" -> {}
              [] field = "selectedNode" -> Null
              [] field = "flattenedItems" -> <<>>
              [] field = "oneArray" -> FALSE
              [] field = "originalTreeData" -> NoArr
              [] field = "calls" -> <<>>
              [] OTHER -> s[field]]

\* setTreeData, lines 268-272: setItems is given the flattenedItems array
\* itself, so this.items and this.flattenedItems are one array after it
setTreeData(s, treeData, expanded) ==
    LET flattened == flattenTree(treeData, expanded)
    IN  [setItems([s EXCEPT !.expandedNodes = expanded, !.flattenedItems = flattened],
                  flattened)
            EXCEPT !.oneArray = TRUE]

\* toggleNode, lines 301-310
toggleNode(s, nodeId) ==
    setTreeData(s, s.originalTreeData,
                IF nodeId \in s.expandedNodes THEN s.expandedNodes \ {nodeId}
                ELSE s.expandedNodes \cup {nodeId})

\* selectNode, lines 312-315
selectNode(s, nodeId) == renderVisible([s EXCEPT !.selectedNode = nodeId])

\* no scroller has been made
ScrollerIdle == scroller = [kind |-> "none"]

\* searchData and filterData are applied to no datasets of their own
SearchIdle == search = [workerData |-> InitWorkerData, asked |-> <<>>, answers |-> <<>>]

(***************************************************************************)
(* Specifications                                                          *)
(***************************************************************************)
\* the worker (data-worker.js).  The parser is Papa Parse 5.4.1 (line 5):
\* when a chunk callback is configured it hands complete() no results
\* object.
Init ==
    /\ WorkerIdle
    /\ papaResults = "none"
    /\ ManagerIdle
    /\ LoadIdle
    /\ RenderIdle
    /\ ScrollerIdle
    /\ SearchIdle

OtherThanWorker ==
    UNCHANGED pvars /\ UNCHANGED lvars /\ UNCHANGED rvars /\ UNCHANGED svars
        /\ UNCHANGED qvars

OnProcessCsvBatch ==
    /\ \E data \in CsvBatchInputs : HandleProcessCsvBatch(data)
    /\ OtherThanWorker

OnBuildSkillsMaster ==
    /\ \E data \in BuildPayloads : HandleBuildSkillsMaster(data)
    /\ OtherThanWorker

OnCalculateStats == HandleCalculateStats /\ OtherThanWorker

OnFilterData ==
    /\ \E data \in FilterInputs : HandleFilterData(data)
    /\ OtherThanWorker

OnSearchData ==
    /\ \E data \in SearchInputs : HandleSearchData(data)
    /\ OtherThanWorker

OnUnknownCommand ==
    /\ \E command \in UnknownCommands : HandleUnknown(command)
    /\ OtherThanWorker

\* the message data that line 27 cannot destructure
MalformedMessages == {Null, Undefined}

OnMalformedMessage ==
    /\ \E eData \in MalformedMessages, handedEvent \in BOOLEAN :
          HandleMalformed(eData, handedEvent)
    /\ OtherThanWorker

BuildTimerFires == ResumeBuild /\ OtherThanWorker

Next ==
    \/ OnProcessCsvBatch
    \/ OnBuildSkillsMaster
    \/ OnCalculateStats
    \/ OnFilterData
    \/ OnSearchData
    \/ OnUnknownCommand
    \/ OnMalformedMessage
    \/ BuildTimerFires

Spec == Init /\ [][Next]_vars

\* one processInChunks call on a PerformanceManager, with cancel()
InitChunks ==
    /\ WorkerIdle
    /\ papaResults = "none"
    /\ ManagerIdle
    /\ LoadIdle
    /\ RenderIdle
    /\ ScrollerIdle
    /\ SearchIdle

OtherThanManager ==
    UNCHANGED wvars /\ UNCHANGED lvars /\ UNCHANGED rvars /\ UNCHANGED svars
        /\ UNCHANGED qvars

CallProcessInChunks ==
    /\ runs = <<>>
    /\ \E items \in SeqsUpTo(ItemValues, MaxItems), handler \in Handlers,
          callOpt \in ChunkSizeOptions, observer \in Observers :
          StartRun(items, handler, Absent, callOpt, observer)
    /\ OtherThanManager

HandlerSettles == (\E r \in 1..Len(runs) : ResumeItem(r)) /\ OtherThanManager

ChunkSettles ==
    /\ \E r \in 1..Len(runs), slow \in BOOLEAN : ResumeChunk(r, slow)
    /\ OtherThanManager

YieldSettles == (\E r \in 1..Len(runs) : ResumeYield(r)) /\ OtherThanManager

CancelCalled == Cancel /\ OtherThanManager

\* the host's own updateMetrics calls are followed while the counter is
\* below MaxUpdates
MaxUpdates == 2

UpdateMetricsCalled ==
    /\ totalOperations < MaxUpdates
    /\ UpdateMetrics
    /\ OtherThanManager

ResetMetricsCalled == ResetMetrics /\ OtherThanManager

NextChunks ==
    \/ CallProcessInChunks
    \/ HandlerSettles
    \/ ChunkSettles
    \/ YieldSettles
    \/ CancelCalled
    \/ UpdateMetricsCalled
    \/ ResetMetricsCalled

SpecChunks == InitChunks /\ [][NextChunks]_vars

\* one renderInChunks call on a PerformanceManager, with cancel()
OtherThanRender ==
    UNCHANGED wvars /\ UNCHANGED lvars /\ UNCHANGED svars
        /\ UNCHANGED qvars

CallRenderInChunks ==
    /\ \E items \in SeqsUpTo(ItemValues, MaxItems), name \in Renderers,
          callOpt \in ChunkSizeOptions, observer \in RenderObservers,
          slowAfter \in 1..(MaxItems + 1) :
          StartRender(items, name, callOpt, observer, slowAfter)
    /\ OtherThanRender

RenderYieldSettles ==
    /\ \E slowAfter \in 1..(MaxItems + 1) : ResumeRenderYield(slowAfter)
    /\ OtherThanRender

NextRender ==
    \/ CallRenderInChunks
    \/ RenderYieldSettles
    \/ CancelCalled

SpecRender == InitChunks /\ [][NextRender]_vars

\* one loadDataProgressively call
OtherThanLoad ==
    UNCHANGED wvars /\ UNCHANGED pvars /\ UNCHANGED rvars /\ UNCHANGED svars
        /\ UNCHANGED qvars

CallLoadDataProgressively ==
    /\ \E dataSources \in DataSources : StartLoad(dataSources)
    /\ OtherThanLoad

LoadSettles == (\E hostOk \in BOOLEAN : ResumeLoad(hostOk)) /\ OtherThanLoad

LoadYieldSettles == ResumeLoadYield /\ OtherThanLoad

NextLoad ==
    \/ CallLoadDataProgressively
    \/ LoadSettles
    \/ LoadYieldSettles

SpecLoad == InitChunks /\ [][NextLoad]_vars


\* one BUILD_SKILLS_MASTER command over bounded hierarchies.  Edge ids are
\* strings (PARENTID and CHILDID are never type-inferred, line 66).
MaxEdges == 2

EdgeIds == {idG1, idS1, idX9}
Edges == {Edge(p, c) : p \in EdgeIds, c \in EdgeIds}

SkillLists ==
    {<<>>,
     <<SkillEntity(idS1, <<"a">>)>>,
     <<SkillEntity(idG1, <<"c">>)>>,
     <<SkillEntity(idS1, <<"a">>), SkillEntity(idS1, <<"b">>)>>}

SkillGroupLists ==
    {<<>>,
     <<SkillGroupEntity(idG1, <<"b">>)>>,
     <<SkillGroupEntity(idG1, <<"b">>), SkillGroupEntity(idS1, <<"d">>)>>}

BuildInputs ==
    {[skillHierarchy |-> Arr(edges), skills |-> Arr(skills), skillGroups |-> Arr(groups)] :
        edges \in SeqsUpTo(Edges, MaxEdges), skills \in SkillLists,
        groups \in SkillGroupLists}

BuildRequested ==
    /\ received = <<>>
    /\ \E data \in BuildInputs : HandleBuildSkillsMaster(data)
    /\ OtherThanWorker

NextBuild ==
    \/ BuildRequested
    \/ BuildTimerFires

SpecBuild == InitChunks /\ [][NextBuild]_vars

(***************************************************************************)
(* Properties of the worker protocol (specification Spec)                  *)
(***************************************************************************)
Requests == 1..Len(received)
Positions == 1..Len(posted)

\* the message that completes a command
CompletionOf(command) ==
    CASE command = "PROCESS_CSV_BATCH" -> "CSV_BATCH_COMPLETE"
      [] command = "BUILD_SKILLS_MASTER" -> "SKILLS_MASTER_COMPLETE"
      [] command = "CALCULATE_STATS" -> "STATS_COMPLETE"
      [] command = "FILTER_DATA" -> "FILTER_COMPLETE"
      [] command = "SEARCH_DATA" -> "SEARCH_COMPLETE"
      [] OTHER -> "none"

\* positions in `posted` of the messages of one type sent for request r
PostedFor(r, type) == {i \in Positions : posted[i].req = r /\ posted[i].type = type}

\* the entities request r published in DATA_CHUNK_PROCESSED messages
PublishedEntities(r) ==
    {posted[i].chunk[j] : <<i, j>> \in
        {<<i, j>> \in PostedFor(r, "DATA_CHUNK_PROCESSED") \X (1..3) :
             j <= Len(posted[i].chunk)}}

\* the search category under which an entity of a dataset is looked up
Selects(searchType, dataType, e) ==
    \/ searchType = "skills" /\ dataType \in {"skills", "skillGroups"}
    \/ /\ searchType = "seen-occupations" /\ dataType \in {"occupations", "groups"}
       /\ e.type = "seen"
    \/ /\ searchType = "unseen-occupations" /\ dataType \in {"occupations", "groups"}
       /\ e.type = "unseen"

EntityDataTypes == {"occupations", "groups", "skills", "skillGroups"}

\* C1: once a PROCESS_CSV_BATCH of an entity dataset has been handled, a
\* later SEARCH_DATA on the matching category whose query is a substring of
\* the label of an accepted entity returns that entity (when the matches do
\* not exceed the limit).
C1_SearchFindsIngested ==
    \A p, s \in Requests :
        ( /\ p < s
          /\ received[p].command = "PROCESS_CSV_BATCH"
          /\ received[p].data.dataType \in EntityDataTypes
          /\ received[s].command = "SEARCH_DATA"
          /\ IsString(received[s].data.query) )
        => \A e \in PublishedEntities(p) :
             ( /\ Selects(received[s].data.searchType, received[p].data.dataType, e)
               /\ includes(e.label, received[s].data.query.s) )
             => \E i \in PostedFor(s, "SEARCH_COMPLETE") :
                  \/ \E j \in 1..Len(posted[i].results) : posted[i].results[j] = e
                  \/ /\ received[s].data.limit.t = "number"
                     /\ posted[i].totalFound > received[s].data.limit.n

\* C2: every command is answered by its completion message or by an ERROR:
\* once no handler is suspended, each received command has one of the two.
C2_EveryCommandAnswered ==
    timers = <<>> =>
        \A r \in Requests :
            \/ PostedFor(r, CompletionOf(received[r].command)) # {}
            \/ PostedFor(r, "ERROR") # {}

\* C4: a PROCESS_CSV_BATCH is answered by DATA_CHUNK_PROCESSED messages
\* followed by exactly one CSV_BATCH_COMPLETE, all with the request's
\* batchId and dataType, and no chunk after the completion.
C4_BatchStreamThenOneComplete ==
    \A r \in Requests :
        received[r].command = "PROCESS_CSV_BATCH" =>
            LET chunks == PostedFor(r, "DATA_CHUNK_PROCESSED")
                completes == PostedFor(r, "CSV_BATCH_COMPLETE")
            IN  /\ Cardinality(completes) = 1
                /\ \A i \in chunks, j \in completes : i < j
                /\ \A i \in chunks \cup completes :
                      /\ posted[i].batchId = received[r].data.batchId
                      /\ posted[i].dataType = received[r].data.dataType

LongRunning == {"PROCESS_CSV_BATCH", "BUILD_SKILLS_MASTER", "CALCULATE_STATS"}

\* C5: no PROGRESS_UPDATE of a long-running command is posted after that
\* command's completion message.
C5_ProgressBeforeCompletion ==
    \A r \in Requests :
        received[r].command \in LongRunning =>
            \A i \in PostedFor(r, CompletionOf(received[r].command)),
               j \in PostedFor(r, "PROGRESS_UPDATE") : j < i

\* a CALCULATE_STATS answered after its two progress reports, following a
\* PROCESS_CSV_BATCH that reported progress and ended with an ERROR: the
\* parser handed complete() nothing, so no CSV_BATCH_COMPLETE was posted and
\* the report of line 85 was never made
C5_Witness ==
    \E p, r \in Requests :
        /\ received[p].command = "PROCESS_CSV_BATCH"
        /\ PostedFor(p, "PROGRESS_UPDATE") # {}
        /\ PostedFor(p, "CSV_BATCH_COMPLETE") = {}
        /\ PostedFor(p, "ERROR") # {}
        /\ received[r].command = "CALCULATE_STATS"
        /\ Cardinality(PostedFor(r, "PROGRESS_UPDATE")) = 2
        /\ \A j \in PostedFor(r, "PROGRESS_UPDATE") :
              \A i \in PostedFor(r, "STATS_COMPLETE") : j < i
        /\ PostedFor(r, "STATS_COMPLETE") # {}


(***************************************************************************)
(* Properties of loadDataProgressively (specification SpecLoad)            *)
(***************************************************************************)
\* C3: a load that returns results to its caller has loaded every source;
\* when a source failed, nothing is returned.
C3_LoadIsAtomic ==
    load.pc = "returned" =>
        /\ load.failed = {}
        /\ \A k \in DOMAIN load.results : load.results[k] = Loaded(k)

(***************************************************************************)
(* Properties of processInChunks (specification SpecChunks)                *)
(***************************************************************************)
Runs == 1..Len(runs)

\* the items of the first k chunks of a run
ChunkPrefix(f, k) == SubSeq(f.items, 1, Min(k * f.chunkSize.n, Len(f.items)))

Fails(handler, item) == processor(handler, item).k # "value"

\* what the handler returns for the items it does not fail on, in order
RECURSIVE HandlerResults(_, _)
HandlerResults(handler, items) ==
    IF items = <<>> THEN <<>>
    ELSE (IF Fails(handler, Head(items)) THEN <<>>
          ELSE <<processor(handler, Head(items)).v>>)
         \o HandlerResults(handler, Tail(items))

\* the same without the results that are null or undefined
KeptResults(handler, items) ==
    SelectSeq(HandlerResults(handler, items), LAMBDA v : ~IsNullish(v))

\* cancel() calls made between two chunks of run r: after the last item of
\* a chunk was handled and before the loop came back to its head
BoundaryCancels(r) ==
    {n \in 1..Len(cancelLog) :
        /\ cancelLog[n].token = runs[r].token
        /\ r <= Len(cancelLog[n].at)
        /\ cancelLog[n].at[r].pc \in {"chunkDone", "observer", "yield"}}

NeverCancelled(f) == ~tokens[f.token]

\* C6: when cancel() is called after chunk k was processed and before chunk
\* k+1 starts, the handler never sees an item beyond chunk k, and the run
\* returns the results of chunks 1..k.
C6_CancelBetweenChunks ==
    \A r \in Runs : \A n \in BoundaryCancels(r) :
        LET f == runs[r]
            prefix == ChunkPrefix(f, cancelLog[n].at[r].chunks)
        IN  /\ Len(f.handled) <= Len(prefix)
            /\ f.handled = SubSeq(prefix, 1, Len(f.handled))
            /\ f.pc = "done" =>
                  /\ f.handled = prefix
                  /\ f.results = KeptResults(f.handler, prefix)

C6_Witness ==
    \E r \in Runs : \E n \in BoundaryCancels(r) :
        /\ runs[r].pc = "done"
        /\ cancelLog[n].at[r].chunks = 1
        /\ runs[r].chunkSize = Num(2)
        /\ Len(runs[r].items) = 3
        /\ Len(runs[r].results) = 2

\* C7 as stated: with the identity handler and no cancellation the run
\* returns the input items, for every item list.
C7_IdentityReturnsInput ==
    \A r \in Runs :
        (runs[r].pc = "done" /\ runs[r].handler = "identity" /\ NeverCancelled(runs[r]))
        => runs[r].results = runs[r].items

NoNullish(items) == \A i \in 1..Len(items) : ~IsNullish(items[i])

\* C7: with the identity handler and no cancellation, a run over items none
\* of which is null or undefined returns the items in their original order,
\* for every chunk size.
C7_IdentityReturnsNonNullInput ==
    \A r \in Runs :
        ( /\ runs[r].pc = "done"
          /\ runs[r].handler = "identity"
          /\ NeverCancelled(runs[r])
          /\ NoNullish(runs[r].items) )
        => runs[r].results = runs[r].items

C7_Witness ==
    \E r \in Runs :
        /\ runs[r].pc = "done"
        /\ runs[r].handler = "identity"
        /\ NeverCancelled(runs[r])
        /\ runs[r].items = <<Num(2), Num(1), Num(2)>>
        /\ runs[r].chunkSize = Num(2)
        /\ runs[r].chunks = 2
        /\ runs[r].results = runs[r].items

SomeItemFails(f) == \E i \in 1..Len(f.items) : Fails(f.handler, f.items[i])

\* C8 as stated: a failing item is the only thing left out, and the result
\* is the sequence of what the handler returned for the other items.
C8_FailingItemOnlyIsSkipped ==
    \A r \in Runs :
        SomeItemFails(runs[r]) =>
            /\ runs[r].pc = "failed" => runs[r].observer = "throws"
            /\ (runs[r].pc = "done" /\ NeverCancelled(runs[r])) =>
                  /\ runs[r].handled = runs[r].items
                  /\ runs[r].results = HandlerResults(runs[r].handler, runs[r].items)

\* C8: when the handler fails on an item, every other item is still passed
\* to the handler, the run does not fail, and the result is the in-order
\* sequence of the results of the non-failing items that are neither null
\* nor undefined.
C8_FailingItemSkippedNullishDropped ==
    \A r \in Runs :
        SomeItemFails(runs[r]) =>
            /\ runs[r].pc = "failed" => runs[r].observer = "throws"
            /\ (runs[r].pc = "done" /\ NeverCancelled(runs[r])) =>
                  /\ runs[r].handled = runs[r].items
                  /\ runs[r].results = KeptResults(runs[r].handler, runs[r].items)

C8_Witness ==
    \E r \in Runs :
        /\ runs[r].pc = "done"
        /\ NeverCancelled(runs[r])
        /\ runs[r].handler \in {"throwsOnTwo", "rejectsOnTwo"}
        /\ runs[r].items = <<Num(2), Num(1), Num(1)>>
        /\ runs[r].chunkSize = Num(2)
        /\ runs[r].handled = runs[r].items
        /\ runs[r].results = <<Num(11), Num(11)>>


(***************************************************************************)
(* Properties of buildSkillsMaster (specification SpecBuild)               *)
(***************************************************************************)
Masters == {i \in Positions : posted[i].type = "SKILLS_MASTER_COMPLETE"}

\* the payload of the command a message answers
PayloadOf(i) == received[posted[i].req].data

ChildIds(edges) == {edges[k].childId : k \in 1..Len(edges)}
ParentIds(edges) == {edges[k].parentId : k \in 1..Len(edges)}

\* the ids an entity list indexes
IndexedIds(items) == {items[k].id : k \in {k \in 1..Len(items) : Truthy(items[k].id)}}

ExpectedType(c, data) ==
    IF c \in IndexedIds(data.skills.a) THEN "skill"
    ELSE IF c \in IndexedIds(data.skillGroups.a) THEN "skillgroup"
    ELSE "unknown"

\* C9: the built map has one node for each id that is the child of an edge
\* and for no other id, and the node is a 'skill' when the id is in the
\* skill index, else a 'skillgroup' when it is in the skill-group index,
\* else 'unknown'.
C9_OneClassifiedNodePerChild ==
    \A i \in Masters :
        LET data == PayloadOf(i)
            master == posted[i].skillsMaster
            children == ChildIds(data.skillHierarchy.a)
        IN  /\ DOMAIN master = {toString(c) : c \in children}
            /\ \A c \in children :
                  /\ master[toString(c)].id = c
                  /\ master[toString(c)].type = ExpectedType(c, data)

C9_Witness ==
    \E i \in Masters :
        LET data == PayloadOf(i)
            master == posted[i].skillsMaster
            children == ChildIds(data.skillHierarchy.a)
        IN  /\ ParentIds(data.skillHierarchy.a) \ children # {}
            /\ \E c \in children :
                  /\ c \in IndexedIds(data.skills.a) \cap IndexedIds(data.skillGroups.a)
                  /\ master[toString(c)].type = "skill"
            /\ \E c \in children : master[toString(c)].type = "skillgroup"

\* the children of the edges under parent c, in edge order
ChildrenOf(edges, c) ==
    LET under == SelectSeq(edges, LAMBDA e : e.parentId = c)
    IN  [k \in 1..Len(under) |-> under[k].childId]

\* the parent of the last edge whose child is c
LastParentOf(edges, c) ==
    edges[CHOOSE k \in 1..Len(edges) :
            /\ edges[k].childId = c
            /\ \A j \in (k + 1)..Len(edges) : edges[j].childId # c].parentId

\* C10: a node's childrenIds are the children of the edges whose parent is
\* the node, in edge order (none when it is never a parent), and its
\* parentId is the parent of the last edge whose child is the node.
C10_ChildrenInOrderLastParentWins ==
    \A i \in Masters :
        LET edges == PayloadOf(i).skillHierarchy.a
            master == posted[i].skillsMaster
        IN  \A c \in ChildIds(edges) :
              /\ c \notin ParentIds(edges) => master[toString(c)].childrenIds = <<>>
              /\ master[toString(c)].childrenIds = ChildrenOf(edges, c)
              /\ master[toString(c)].parentId = LastParentOf(edges, c)

C10_Witness ==
    \E i \in Masters :
        LET edges == PayloadOf(i).skillHierarchy.a
            master == posted[i].skillsMaster
        IN  /\ Len(edges) = 2
            /\ edges[1].childId = edges[2].childId
            /\ edges[1].parentId # edges[2].parentId
            /\ master[toString(edges[1].childId)].parentId = edges[2].parentId
            /\ \E c \in ChildIds(edges) : Len(master[toString(c)].childrenIds) = 1


(***************************************************************************)
(* Further properties of the worker protocol (specification Spec)          *)
(***************************************************************************)
\* the three maps of a SKILLS_MASTER_COMPLETE message
MapsOf(m) == <<m.skillsMaster, m.hierarchyMap, m.parentMap>>

\* the maps a payload gives when it is built from its edges and indices
\* alone: nodes for the children, in a worker that handles nothing else
MapsFromPayload(data) ==
    LET maps == buildHierarchyMaps(data.skillHierarchy.a, EmptyMap, EmptyMap)
        skillIndex == indexById(data.skills.a, EmptyMap)
        groupIndex == indexById(data.skillGroups.a, EmptyMap)
        children == maps.skillParentMap.keys
        nodes == [k \in 1..Len(children) |->
                    createEnrichedSkillItem(children[k], maps.skillParentMap,
                        maps.skillHierarchyMap, skillIndex, groupIndex)]
    IN  << ObjectFromEntries([keys |-> children, vals |-> nodes]),
           ObjectFromEntries(maps.skillHierarchyMap),
           ObjectFromEntries(maps.skillParentMap) >>

\* C11: the maps of a SKILLS_MASTER_COMPLETE are determined by the payload
\* of its request alone: two builds of the same payload post equal maps,
\* whatever was handled before them or between their yields.
C11_BuildDependsOnPayloadOnly ==
    /\ \A i \in Masters : MapsOf(posted[i]) = MapsFromPayload(PayloadOf(i))
    /\ \A i, j \in Masters :
          PayloadOf(i) = PayloadOf(j) => MapsOf(posted[i]) = MapsOf(posted[j])

\* two builds of the same non-empty hierarchy, the second requested while
\* the first was suspended, both completed
C11_Witness ==
    \E i, j \in Masters :
        /\ posted[i].req = 1 /\ posted[j].req = 2
        /\ PayloadOf(i) = PayloadOf(j)
        /\ DOMAIN posted[i].skillsMaster # {}
        /\ \E k \in PostedFor(2, "PROGRESS_UPDATE") : k < i


(***************************************************************************)
(* Row normalizers (specification SpecRows): one PROCESS_CSV_BATCH over    *)
(* rows drawn from the values the parser can deliver.  CODE is never       *)
(* type-inferred (line 66); an empty cell of a type-inferred column is     *)
(* null; a column the file lacks is undefined.                             *)
(***************************************************************************)
Repeat(c, n) == [i \in 1..n |-> c]

RowCodes ==
    {Undefined, Str(<<>>), Str(<<" ">>), Str(<<"0", "1">>), Str(<<" ", "0", "1", " ">>),
     Str(<<"I", "1">>), Str(<<" ", "I", "1">>), Str(<<"i", "1">>)}

RowLabels ==
    {Undefined, Null, Str(<<" ">>), Str(<<"A", "b">>), Str(<<" ", "A", "b", " ">>),
     Num(7), Bool(TRUE)}

RowDescriptions ==
    {Undefined,
     Str(<<" ", "d", " ">>),
     Str(Repeat("x", 300)),
     Str(Repeat("x", 305)),
     Str(<<" ", " ">> \o Repeat("x", 405)),
     Str(Repeat("x", 299) \o <<" ">> \o Repeat("y", 150)),
     Num(5)}

RowAltLabels == {Undefined, Num(3)}
RowIds == {Undefined, Str(<<"S", "1">>), Num(12)}

\* codes of group rows
GroupCodes ==
    {Str(<<"0", "1", "1", "0">>), Str(<<"I", "4", "1", "_", "0", "_", "1">>),
     Str(<<"0", "0">>), Str(<<"0">>), Str(<<"1", "0", "0">>), Str(<<" ", "0", "0", "7", " ">>),
     Str(<<"I">>), Str(<<"I", "4">>), Str(<<"I", "4", "1">>), Str(<<"I", "_">>)}

\* codes and origin URIs of skill-group rows
SkillGroupCodes ==
    {Undefined, Str(<<" ">>), Str(<<"S", "2">>), Str(<<" ", "L", "1", " ">>),
     Str(<<"T", "1">>), Str(<<"K", "1">>), Str(<<"t", "1">>)}

OriginUris ==
    {Undefined, Str(<<"u">>), Num(3),
     Str(<<"h", "/">> \o IscedF \o <<"/", "0", "7", "1", "/", "x">>),
     Str(IscedF \o <<"/", "x">>)}

EntityRows ==
    [CODE : RowCodes, PREFERREDLABEL : RowLabels,
     DESCRIPTION : {Undefined, Str(<<" ", "d", " ">>)},
     ALTLABELS : RowAltLabels, ID : RowIds]
    \cup
    [CODE : {Str(<<"0", "1">>), Str(<<"I", "1">>)}, PREFERREDLABEL : {Str(<<"A", "b">>)},
     DESCRIPTION : RowDescriptions, ALTLABELS : {Undefined}, ID : RowIds]
    \cup
    [CODE : GroupCodes, PREFERREDLABEL : {Str(<<"A", "b">>)}]
    \cup
    [ID : {Str(<<"S", "1">>), Str(<<"x", "9">>), Num(12)}, CODE : SkillGroupCodes,
     ORIGINURI : OriginUris]

\* rows for the batches of two
PairRows ==
    [CODE : {Str(<<"0", "1">>)}, PREFERREDLABEL : {Str(<<"A", "b">>), Num(7)},
     DESCRIPTION : {Undefined}, ALTLABELS : {Undefined}, ID : {Str(<<"S", "1">>)}]

RowBatches ==
    {<<row>> : row \in EntityRows} \cup {<<a, b>> : a \in PairRows, b \in PairRows}

RowBatchInputs ==
    {[csvData |-> rows, errors |-> <<>>, dataType |-> dataType, batchId |-> "b1"] :
        rows \in RowBatches, dataType \in EntityDataTypes}
    \cup
    {[csvData |-> batch.csvData, errors |-> batch.errors, dataType |-> batch.dataType,
      batchId |-> "b1"] :
        batch \in {b \in CsvBatches : b.dataType \notin EntityDataTypes}}

RowBatchRequested ==
    /\ received = <<>>
    /\ \E data \in RowBatchInputs : HandleProcessCsvBatch(data)
    /\ OtherThanWorker

NextRows == RowBatchRequested

SpecRows == InitChunks /\ [][NextRows]_vars

\* the rows the worker was given, as <<request, position>>
GivenRows ==
    {<<r, k>> \in Requests \X (1..2) :
        /\ received[r].command = "PROCESS_CSV_BATCH"
        /\ k <= Len(received[r].data.csvData)}

RowAt(rk) == received[rk[1]].data.csvData[rk[2]]
TypeAt(rk) == received[rk[1]].data.dataType
Outcome(rk) == processRow(TypeAt(rk), RowAt(rk))

\* a cell that holds text which is not empty after trimming
HasText(v) == IsString(v) /\ trim(v.s) # <<>>
TextOrNone(v) == IsString(v) \/ IsNullish(v)

\* C12: an occupation or group row is rejected exactly when its CODE or its
\* PREFERREDLABEL is missing or empty after trimming, and an accepted row
\* gives an entity with the trimmed, non-empty code and label.
C12_RejectsBlankCodeOrLabel ==
    \A rk \in GivenRows :
        ( /\ TypeAt(rk) \in {"occupations", "groups"}
          /\ TextOrNone(Col(RowAt(rk), "CODE"))
          /\ TextOrNone(Col(RowAt(rk), "PREFERREDLABEL"))
          /\ Outcome(rk).k # "throw" )
        => LET CODE == Col(RowAt(rk), "CODE")
               LABEL == Col(RowAt(rk), "PREFERREDLABEL")
           IN  IF HasText(CODE) /\ HasText(LABEL)
               THEN /\ Outcome(rk).k = "entity"
                    /\ Outcome(rk).e.code = trim(CODE.s)
                    /\ Outcome(rk).e.label = trim(LABEL.s)
               ELSE Outcome(rk).k = "null"

\* the entities of the acceptable rows of request r
AcceptedOf(r) ==
    {Outcome(rk).e : rk \in {x \in GivenRows : x[1] = r /\ Outcome(x).k = "entity"}}

\* C13: no row makes a normalizer raise, whatever the parser inferred for
\* its cells, and every acceptable row of a batch is published.
C13_NormalizersNeverRaise ==
    /\ \A rk \in GivenRows : Outcome(rk).k \in {"entity", "null"}
    /\ \A r \in Requests :
          received[r].command = "PROCESS_CSV_BATCH" =>
              AcceptedOf(r) \subseteq PublishedEntities(r)

\* C14: an accepted occupation or group is 'unseen' exactly when its
\* trimmed CODE begins with the capital letter I, and 'seen' otherwise.
C14_UnseenIffCodeStartsWithI ==
    \A rk \in GivenRows :
        (TypeAt(rk) \in {"occupations", "groups"} /\ Outcome(rk).k = "entity")
        => LET code == trim(Col(RowAt(rk), "CODE").s)
               unseen == code # <<>> /\ Head(code) = "I"
           IN  /\ Outcome(rk).e.type = (IF unseen THEN "unseen" ELSE "seen")
               /\ PostedFor(rk[1], "ERROR") = {} =>
                     Outcome(rk).e \in PublishedEntities(rk[1])

C14_Witness ==
    \E rk \in GivenRows :
        /\ TypeAt(rk) = "groups"
        /\ Col(RowAt(rk), "CODE") = Str(<<" ", "I", "1">>)
        /\ Outcome(rk).k = "entity"
        /\ Outcome(rk).e.type = "unseen"
        /\ Outcome(rk).e \in PublishedEntities(rk[1])

DescriptionLimit(dataType) ==
    CASE dataType = "occupations" -> OccupationDescriptionLimit
      [] dataType = "groups" -> GroupDescriptionLimit
      [] dataType = "skills" -> SkillDescriptionLimit
      [] OTHER -> SkillGroupDescriptionLimit

\* C15: the description of an accepted row is the trimmed DESCRIPTION when
\* that is no longer than the type's limit, and has exactly the limit's
\* length when it is longer.
C15_DescriptionTruncatedAfterTrim ==
    \A rk \in GivenRows :
        ( /\ TypeAt(rk) \in EntityDataTypes
          /\ Outcome(rk).k = "entity"
          /\ IsString(Col(RowAt(rk), "DESCRIPTION")) )
        => LET d == trim(Col(RowAt(rk), "DESCRIPTION").s)
               limit == DescriptionLimit(TypeAt(rk))
           IN  IF Len(d) > limit
               THEN Len(Outcome(rk).e.description) = limit
               ELSE Outcome(rk).e.description = d


(***************************************************************************)
(* Search (specification SpecSearch).  searchData and filterData read the  *)
(* worker's datasets and post one message: they are functions of the       *)
(* datasets and the request.  No command of the worker stores the entities *)
(* it normalizes, so the worker's own datasets stay empty; the functions   *)
(* are applied here to datasets drawn from Corpora, made of entities as    *)
(* the normalizers build them.  The worker itself stays as it was loaded.  *)
(***************************************************************************)
MaxCorpus == 2

Occupation(code, label, description, altLabels) ==
    processOccupationRow([CODE |-> Str(code), PREFERREDLABEL |-> Str(label),
                          DESCRIPTION |-> Str(description),
                          ALTLABELS |-> Str(altLabels)]).e

CorpusOccupations ==
    {Occupation(<<"a", "b">>, <<"u+00C9", "u+0130">>, <<>>, <<>>),
     Occupation(<<"A", "b", "c">>, <<"X", "a", "b">>, <<>>, <<>>),
     Occupation(<<"0", "1">>, <<"a", "b">>, <<>>, <<>>),
     Occupation(<<"0", "2">>, <<"Q">>, <<"x", "a", "b", "y">>, <<>>),
     Occupation(<<"0", "3">>, <<"Q">>, <<>>, <<"a", "b">>),
     Occupation(<<"0", "4">>, <<"X", "a", "b">>, <<>>, <<>>),
     Occupation(<<"I", "5">>, <<"Q">>, <<>>, <<>>)}

CorpusGroups ==
    {<<>>,
     <<processGroupRow([CODE |-> Str(<<"0", "5">>),
                        PREFERREDLABEL |-> Str(<<"A", "b", "x">>)]).e>>}

CorpusSkills == {<<>>, <<SkillEntity(idS1, <<"a", "b">>)>>}

CorpusSkillGroups == {<<>>, <<SkillGroupEntity(idG1, <<"a", "b">>)>>}

Corpora ==
    {[occupations |-> occupations, groups |-> groups, skills |-> skills,
      skillGroups |-> skillGroups, skillsMaster |-> EmptyObject, stats |-> EmptyObject] :
        occupations \in SeqsUpTo(CorpusOccupations, MaxCorpus),
        groups \in CorpusGroups, skills \in CorpusSkills,
        skillGroups \in CorpusSkillGroups}

Queries ==
    {Str(<<"a", "b">>), Str(<<"A", "B", " ">>), Str(<<"q">>), Str(<<>>), Str(<<" ">>),
     Str(<<"u+00E9", "i", "u+0307">>), Undefined}

\* a limit may arrive as text: slice converts it to the number it writes
TextOfOne == Str(<<"1", "e", "0">>)
Limits == {Undefined, Num(0), Num(1), Num(2), TextOfOne}

InitSearch ==
    /\ WorkerIdle
    /\ papaResults = "none"
    /\ ManagerIdle
    /\ LoadIdle
    /\ RenderIdle
    /\ ScrollerIdle
    /\ search \in {[workerData |-> wd, asked |-> <<>>, answers |-> <<>>] : wd \in Corpora}

OtherThanSearch ==
    UNCHANGED wvars /\ UNCHANGED pvars /\ UNCHANGED lvars /\ UNCHANGED rvars
        /\ UNCHANGED svars

\* a function of the datasets is applied to a request, and what it posts
\* is kept as the answer
Applied(command, data, msgs) ==
    search' = [search EXCEPT !.asked = Append(@, [command |-> command, data |-> data]),
                             !.answers = @ \o msgs]

ApplySearchData ==
    /\ search.asked = <<>>
    /\ \E query \in Queries, searchType \in SearchTypes, limit \in Limits :
          LET data == [query |-> query, searchType |-> searchType, limit |-> limit]
          IN  Applied("SEARCH_DATA", data, searchData(search.workerData, data, 1))
    /\ OtherThanSearch

ApplyFilterData ==
    /\ search.asked = <<>>
    /\ \E filterType \in SearchTypes \cup {"other"} :
          LET data == [filterType |-> filterType, criteria |-> Undefined]
          IN  Applied("FILTER_DATA", data, filterData(search.workerData, data, 1))
    /\ OtherThanSearch

NextSearch ==
    \/ ApplySearchData
    \/ ApplyFilterData

SpecSearch == InitSearch /\ [][NextSearch]_vars

\* the request of the k-th application
Asked(k) == search.asked[k].data
\* the applications of searchData whose query is a string, the query as
\* scored (lower-cased, trimmed), the limit in force and the corpus searched
Searches ==
    {s \in 1..Len(search.asked) : search.asked[s].command = "SEARCH_DATA"
                                     /\ IsString(Asked(s).query)}
ScoredQuery(s) == trim(toLowerCase(Asked(s).query.s))
LimitOf(s) ==
    CASE Asked(s).limit.t = "undefined" -> DefaultLimit
      [] Asked(s).limit = TextOfOne -> 1
      [] OTHER -> Asked(s).limit.n
CorpusOf(s) == selectItems(search.workerData, Asked(s).searchType)
AllItems == search.workerData.occupations \o search.workerData.groups
                \o search.workerData.skills \o search.workerData.skillGroups
ItemsOf(list) == {list[i] : i \in 1..Len(list)}
\* the answers of a type to application s
AnswersOfType(s, type) ==
    {search.answers[i] : i \in {i \in 1..Len(search.answers) :
        search.answers[i].req = s /\ search.answers[i].type = type}}
\* the SEARCH_COMPLETE answers to application s
AnswersTo(s) == AnswersOfType(s, "SEARCH_COMPLETE")

IsPrefixOf(p, s) == Len(p) <= Len(s) /\ SubSeq(s, 1, Len(p)) = p
OccursIn(p, s) == \E i \in 0..(Len(s) - Len(p)) : SubSeq(s, i + 1, i + Len(p)) = p
LowerText(item, field) ==
    IF field \in DOMAIN item THEN toLowerCase(item[field]) ELSE <<>>
HasField(item, field) == field \in DOMAIN item

\* the seven rules, each applied to the field as it is
RuleSum(item, q) ==
      (IF HasField(item, "code") /\ LowerText(item, "code") = q THEN 1000 ELSE 0)
    + (IF HasField(item, "code") /\ IsPrefixOf(q, LowerText(item, "code")) THEN 500 ELSE 0)
    + (IF LowerText(item, "label") = q THEN 800 ELSE 0)
    + (IF IsPrefixOf(q, LowerText(item, "label")) THEN 400 ELSE 0)
    + (IF OccursIn(q, LowerText(item, "label")) THEN 200 ELSE 0)
    + (IF OccursIn(q, LowerText(item, "description")) THEN 100 ELSE 0)
    + (IF OccursIn(q, LowerText(item, "altLabels")) THEN 150 ELSE 0)

\* the same, where an empty code, description or altLabels counts nothing
RuleSumOfFilledFields(item, q) ==
    LET sum(code, label, description, altLabels) ==
              (IF code # <<>> /\ code = q THEN 1000 ELSE 0)
            + (IF code # <<>> /\ IsPrefixOf(q, code) THEN 500 ELSE 0)
            + (IF label = q THEN 800 ELSE 0)
            + (IF IsPrefixOf(q, label) THEN 400 ELSE 0)
            + (IF OccursIn(q, label) THEN 200 ELSE 0)
            + (IF description # <<>> /\ OccursIn(q, description) THEN 100 ELSE 0)
            + (IF altLabels # <<>> /\ OccursIn(q, altLabels) THEN 150 ELSE 0)
    IN  sum(LowerText(item, "code"), LowerText(item, "label"),
            LowerText(item, "description"), LowerText(item, "altLabels"))

\* C16 as stated: the score is the sum of the seven rules.
C16_ScoreIsRuleSum ==
    \A s \in Searches : \A item \in ItemsOf(AllItems) :
        calculateSearchScore(item, ScoredQuery(s)) = RuleSum(item, ScoredQuery(s))

\* C16: the score is the sum of the seven rules, where a code, description
\* or altLabels that is absent or empty contributes nothing.
C16_ScoreIsRuleSumOfFilledFields ==
    \A s \in Searches :
        LET summed(q) ==
                \A item \in ItemsOf(AllItems) :
                    calculateSearchScore(item, q) = RuleSumOfFilledFields(item, q)
        IN  summed(ScoredQuery(s))

\* a search for "AB " that returns an item whose code is the query (1500)
\* before one matched by its altLabels alone (150)
C16_Witness ==
    \E s \in Searches : \E m \in AnswersTo(s) :
        /\ Asked(s).query = Str(<<"A", "B", " ">>)
        /\ Len(m.results) = 2
        /\ calculateSearchScore(m.results[1], ScoredQuery(s)) = 1500
        /\ calculateSearchScore(m.results[2], ScoredQuery(s)) = 150

ScoreIn(s, item) == calculateSearchScore(item, ScoredQuery(s))

\* C17: the results are at most `limit` items, in non-increasing order of
\* score, and no match left out scores more than a match returned: they are
\* the first `limit` items of the matches sorted by score.
C17_ResultsAreTopOfSortedMatches ==
    \A s \in Searches : \A m \in AnswersTo(s) :
        LET matches == SelectSeq(CorpusOf(s), LAMBDA item : ScoreIn(s, item) > 0)
        IN  /\ Len(m.results) <= LimitOf(s)
            /\ Len(m.results) = Min(LimitOf(s), Len(matches))
            /\ \A i, j \in 1..Len(m.results) :
                  i < j => ScoreIn(s, m.results[i]) >= ScoreIn(s, m.results[j])
            /\ ItemsOf(m.results) \subseteq ItemsOf(matches)
            /\ \A out \in ItemsOf(matches) \ ItemsOf(m.results) :
                  \A kept \in ItemsOf(m.results) : ScoreIn(s, out) <= ScoreIn(s, kept)

C17_Witness ==
    \E s \in Searches : \E m \in AnswersTo(s) :
        /\ LimitOf(s) = 2
        /\ m.totalFound = 3
        /\ Len(m.results) = 2
        /\ ScoreIn(s, m.results[1]) > ScoreIn(s, m.results[2])
        /\ CorpusOf(s)[1] \notin ItemsOf(m.results)

\* C18: no item that scores 0 is returned, and totalFound is the number of
\* items of the corpus that score more than 0, whatever the limit.
C18_ZeroScoreExcludedTotalCountsMatches ==
    \A s \in Searches : \A m \in AnswersTo(s) :
        /\ \A i \in 1..Len(m.results) : ScoreIn(s, m.results[i]) > 0
        /\ m.totalFound =
              Cardinality({i \in 1..Len(CorpusOf(s)) : ScoreIn(s, CorpusOf(s)[i]) > 0})
        /\ m.totalFound >= Len(m.results)

C18_Witness ==
    \E s \in Searches : \E m \in AnswersTo(s) :
        /\ Len(CorpusOf(s)) = 3
        /\ m.totalFound = 2
        /\ Len(m.results) = 1
        /\ \E item \in ItemsOf(CorpusOf(s)) : ScoreIn(s, item) = 0

\* how an item matches a query
CodeIs(item, q) == HasField(item, "code") /\ LowerText(item, "code") = q
LabelHolds(item, q) == OccursIn(q, LowerText(item, "label"))
OnlyLabelHolds(item, q) ==
    /\ LabelHolds(item, q)
    /\ ~IsPrefixOf(q, LowerText(item, "label"))
    /\ ~(HasField(item, "code") /\ IsPrefixOf(q, LowerText(item, "code")))
    /\ ~OccursIn(q, LowerText(item, "description"))
    /\ ~OccursIn(q, LowerText(item, "altLabels"))
OnlyDescriptionHolds(item, q) ==
    /\ OccursIn(q, LowerText(item, "description"))
    /\ ~LabelHolds(item, q)
    /\ ~(HasField(item, "code") /\ IsPrefixOf(q, LowerText(item, "code")))
    /\ ~OccursIn(q, LowerText(item, "altLabels"))

\* C19: for a non-empty query, an item whose code is the query scores more
\* than an item matched only because its label contains the query, and an
\* item whose label contains the query scores at least 100 more than an
\* item matched only by its description.
C19_CodeBeatsLabelBeatsDescription ==
    \A s \in Searches :
        LET ordered(q, items) ==
                q # <<>> =>
                    \A x \in items :
                        /\ CodeIs(x, q) =>
                              \A y \in items :
                                  OnlyLabelHolds(y, q)
                                      => calculateSearchScore(x, q)
                                            > calculateSearchScore(y, q)
                        /\ LabelHolds(x, q) =>
                              \A y \in items :
                                  OnlyDescriptionHolds(y, q)
                                      => calculateSearchScore(x, q)
                                            >= calculateSearchScore(y, q) + 100
        IN  ordered(ScoredQuery(s), ItemsOf(AllItems))

C19_Witness ==
    \E s \in Searches : \E m \in AnswersTo(s) :
        /\ ScoredQuery(s) = <<"a", "b">>
        /\ Len(m.results) = 2
        /\ CodeIs(m.results[1], ScoredQuery(s))
        /\ ~LabelHolds(m.results[1], ScoredQuery(s))
        /\ OnlyLabelHolds(m.results[2], ScoredQuery(s))

(***************************************************************************)
(* Unknown commands (specification Spec)                                   *)
(***************************************************************************)
KnownCommands ==
    {"PROCESS_CSV_BATCH", "BUILD_SKILLS_MASTER", "CALCULATE_STATS", "FILTER_DATA",
     "SEARCH_DATA"}

\* a known command whose payload its handler can read
ValidCommand(c) ==
    /\ c.command \in KnownCommands
    /\ c.command = "BUILD_SKILLS_MASTER" => ~buildThrows(c.data)

Answered(r) ==
    \/ PostedFor(r, CompletionOf(received[r].command)) # {}
    \/ PostedFor(r, "ERROR") # {}
    \/ \E k \in 1..Len(timers) : timers[k].req = r

\* the step in which an unknown command is received
UnknownCommandStep ==
    /\ Len(received') = Len(received) + 1
    /\ received'[Len(received')].command \notin KnownCommands

\* C20: an unknown command is answered by exactly one ERROR and by nothing
\* else, it changes neither the datasets nor the suspended builds, and the
\* valid commands after it are handled and answered.
C20_UnknownCommandOnlyReportsError ==
    /\ [](\A r \in Requests :
            received[r].command \notin KnownCommands =>
                /\ Cardinality({i \in Positions : posted[i].req = r}) = 1
                /\ Cardinality(PostedFor(r, "ERROR")) = 1
                /\ \A s \in Requests :
                      (s > r /\ ValidCommand(received[s])) => Answered(s))
    /\ [][UnknownCommandStep =>
            /\ workerData' = workerData
            /\ timers' = timers
            /\ currentProgress' = currentProgress
            /\ Len(posted') = Len(posted) + 1]_vars

C20_Witness ==
    /\ Len(received) = 2
    /\ received[1].command \notin KnownCommands
    /\ received[2].command = "BUILD_SKILLS_MASTER"
    /\ PostedFor(1, "ERROR") # {}
    /\ \E i \in PostedFor(2, "SKILLS_MASTER_COMPLETE") : DOMAIN posted[i].skillsMaster # {}

(***************************************************************************)
(* Statistics after ingestion (specification Spec)                         *)
(***************************************************************************)
\* the entities of a dataset published before position k of the output
AcceptedBefore(k, dataType) ==
    UNION {{<<i, j>> : j \in 1..Len(posted[i].chunk)} :
            i \in {i \in 1..(k - 1) : /\ posted[i].type = "DATA_CHUNK_PROCESSED"
                                      /\ posted[i].dataType = dataType}}

AcceptedOfType(k, dataType, type) ==
    {ij \in AcceptedBefore(k, dataType) : posted[ij[1]].chunk[ij[2]].type = type}

\* C21: the statistics reported by CALCULATE_STATS count the entities
\* accepted so far for each dataset, and split occupations and groups into
\* seen and unseen by their economy type.
C21_StatsCountIngested ==
    \A k \in Positions :
        posted[k].type = "STATS_COMPLETE" =>
            LET stats == posted[k].stats
            IN  /\ stats.totalOccupations = Cardinality(AcceptedBefore(k, "occupations"))
                /\ stats.totalGroups = Cardinality(AcceptedBefore(k, "groups"))
                /\ stats.totalSkills = Cardinality(AcceptedBefore(k, "skills"))
                /\ stats.totalSkillGroups = Cardinality(AcceptedBefore(k, "skillGroups"))
                /\ stats.seenOccupations + stats.unseenOccupations = stats.totalOccupations
                /\ stats.seenGroups + stats.unseenGroups = stats.totalGroups
                /\ stats.unseenOccupations
                     = Cardinality(AcceptedOfType(k, "occupations", "unseen"))
                /\ stats.seenOccupations
                     = Cardinality(AcceptedOfType(k, "occupations", "seen"))
                /\ stats.unseenGroups = Cardinality(AcceptedOfType(k, "groups", "unseen"))
                /\ stats.seenGroups = Cardinality(AcceptedOfType(k, "groups", "seen"))

(***************************************************************************)
(* Order of the published chunks (specification SpecRows)                  *)
(***************************************************************************)
\* the chunks published for request r among the first k messages, joined
RECURSIVE EmittedUpTo(_, _)
EmittedUpTo(k, r) ==
    IF k = 0 THEN <<>>
    ELSE IF posted[k].req = r /\ posted[k].type = "DATA_CHUNK_PROCESSED"
         THEN EmittedUpTo(k - 1, r) \o posted[k].chunk
         ELSE EmittedUpTo(k - 1, r)

\* the entities the normalizer returns for the rows of request r, in row order
AcceptedInOrder(r) ==
    LET rows == received[r].data.csvData
        out == [i \in 1..Len(rows) |-> processRow(received[r].data.dataType, rows[i])]
        kept == SelectSeq(out, LAMBDA o : o.k = "entity")
    IN  [i \in 1..Len(kept) |-> kept[i].e]

\* C22: the chunks published for one PROCESS_CSV_BATCH, joined in the order
\* they were posted, are the accepted entities in the order of their rows.
C22_ChunksAreAcceptedRowsInOrder ==
    \A r \in Requests :
        received[r].command = "PROCESS_CSV_BATCH" =>
            EmittedUpTo(Len(posted), r) = AcceptedInOrder(r)

(***************************************************************************)
(* The corpus of a category (specification SpecSearch)                     *)
(***************************************************************************)
InList(item, list) == \E i \in 1..Len(list) : list[i] = item

\* what a category admits
SelectedBy(category, item) ==
    CASE category = "seen-occupations" ->
           /\ InList(item, search.workerData.occupations) \/ InList(item, search.workerData.groups)
           /\ item.type = "seen"
      [] category = "unseen-occupations" ->
           /\ InList(item, search.workerData.occupations) \/ InList(item, search.workerData.groups)
           /\ item.type = "unseen"
      [] category = "skills" ->
           InList(item, search.workerData.skills) \/ InList(item, search.workerData.skillGroups)
      [] OTHER -> FALSE

CategoryCorpus(category) ==
    SelectSeq(IF category = "skills"
              THEN search.workerData.skills \o search.workerData.skillGroups
              ELSE search.workerData.occupations \o search.workerData.groups,
              LAMBDA item : SelectedBy(category, item))

Filters == {r \in 1..Len(search.asked) : search.asked[r].command = "FILTER_DATA"}

\* the cancel() calls made by another task while run r was unfinished
HostCancelsDuring(r) ==
    {n \in 1..Len(cancelLog) :
        /\ r <= Len(cancelLog[n].at)
        /\ cancelLog[n].at[r].pc \notin {"observer", "done", "failed"}}

\* C24: while a run is unfinished, another task (here a cancel() call) runs
\* only while the run waits in yieldToMain after a chunk, never between two
\* items of a chunk.
C24_OtherTasksOnlyAtYield ==
    \A r \in Runs : \A n \in HostCancelsDuring(r) : cancelLog[n].at[r].pc = "yield"

(***************************************************************************)
(* Rendering with a failing renderer (specification SpecRender)            *)
(***************************************************************************)
\* the elements the renderer gives for the items, in item order
RECURSIVE RenderableFrom(_, _, _)
RenderableFrom(name, items, index) ==
    IF items = <<>> THEN <<>>
    ELSE LET out == renderer(name, Head(items), index)
             rest == RenderableFrom(name, Tail(items), index + 1)
         IN  IF out.k = "element" THEN <<out.e>> \o rest ELSE rest

RenderFinished ==
    /\ render.pc \in {"returned", "threw"}
    /\ ~tokens[render.token]
    /\ render.observer # "throws"

\* C25: a render that was not cancelled holds, when it ends, the element of
\* every item the renderer did not fail on, in item order: a failing item
\* is the only one skipped.
C25_FailingRenderSkipsOneItem ==
    RenderFinished => render.container = RenderableFrom(render.renderer, render.items, 0)

(***************************************************************************)
(* Progress reports of a run (specification SpecChunks)                    *)
(***************************************************************************)
\* the chunks of a run that have been processed to their end
ChunksProcessed(f) == IF f.pc \in {"item", "chunkDone"} THEN f.chunks - 1 ELSE f.chunks

\* p is processed / total * 100 rounded to the nearest integer, half up
IsRoundedPercent(p, processed, total) ==
    /\ 2 * total * p <= 200 * processed + total
    /\ 200 * processed + total < 2 * total * (p + 1)

\* C26: a run with a progress observer reports once after each processed
\* chunk; the k-th report counts the items of the first k chunks, failed
\* ones included, with the rounded percentage; and a run that returns
\* without having been cancelled ends with processed = total and 100.
C26_OneReportPerChunk ==
    \A r \in Runs :
        LET f == runs[r]
            total == Len(f.items)
        IN  f.observer # "none" =>
              /\ Len(f.progress) = ChunksProcessed(f)
              /\ \A k \in 1..Len(f.progress) :
                    /\ f.progress[k].processed = Len(ChunkPrefix(f, k))
                    /\ f.progress[k].processed <= total
                    /\ k > 1 => f.progress[k].processed > f.progress[k - 1].processed
                    /\ f.progress[k].total = total
                    /\ IsRoundedPercent(f.progress[k].percentage,
                                        f.progress[k].processed, total)
              /\ (f.pc = "done" /\ NeverCancelled(f) /\ total > 0) =>
                    /\ f.progress[Len(f.progress)].processed = total
                    /\ f.progress[Len(f.progress)].percentage = 100

\* under SpecChunks: a run of three items in chunks of two, one item failing
C26_Witness ==
    \E r \in Runs :
        /\ runs[r].pc = "done"
        /\ runs[r].handler = "throwsOnTwo"
        /\ runs[r].items = <<Num(1), Num(2), Num(1)>>
        /\ Len(runs[r].results) = 2
        /\ Len(runs[r].progress) = 2
        /\ runs[r].progress[1].processed = 2
        /\ runs[r].progress[1].percentage = 67
        /\ runs[r].progress[2].processed = 3

(***************************************************************************)
(* Parent and children links of a build (specification SpecBuild)          *)
(***************************************************************************)
\* the places of c in the children that the object lists under p
PlacesUnder(hierarchyMap, p, c) ==
    IF toString(p) \in DOMAIN hierarchyMap
    THEN {k \in 1..Len(hierarchyMap[toString(p)]) : hierarchyMap[toString(p)][k] = c}
    ELSE {}

IsParentIn(parentMap, c, p) ==
    toString(c) \in DOMAIN parentMap /\ parentMap[toString(c)] = p

\* C27: in the answer of a build, c is listed among the children of p
\* exactly when p is the parent recorded for c, and it is listed there once;
\* the nodes' childrenIds and parentId agree in the same way.
C27_ParentAndChildrenAgree ==
    \A i \in Masters :
        LET edges == PayloadOf(i).skillHierarchy.a
            ids == ChildIds(edges) \cup ParentIds(edges)
            master == posted[i].skillsMaster
        IN  \A p, c \in ids :
              /\ PlacesUnder(posted[i].hierarchyMap, p, c) # {}
                    <=> IsParentIn(posted[i].parentMap, c, p)
              /\ Cardinality(PlacesUnder(posted[i].hierarchyMap, p, c)) <= 1
              /\ (toString(p) \in DOMAIN master /\ toString(c) \in DOMAIN master) =>
                    ((\E k \in 1..Len(master[toString(p)].childrenIds) :
                          master[toString(p)].childrenIds[k] = c)
                       <=> master[toString(c)].parentId = p)

(***************************************************************************)
(* Levels of groups and categories of skill groups (specification SpecRows)*)
(***************************************************************************)
Underscores(code) == Cardinality({i \in 1..Len(code) : code[i] = "_"})
LeadingZeros(code) ==
    Cardinality({k \in 1..Len(code) : \A j \in 1..k : code[j] = "0"})

ExpectedLevel(code) ==
    IF code # <<>> /\ Head(code) = "I"
    THEN IF Underscores(code) > 0 THEN (Underscores(code) + 1) + 1
         ELSE IF Len(code) > 2 THEN 2
         ELSE 1
    ELSE IF Len(code) - LeadingZeros(code) > 1 THEN Len(code) - LeadingZeros(code)
         ELSE 1

GroupEntities ==
    {rk \in GivenRows : TypeAt(rk) = "groups" /\ Outcome(rk).k = "entity"}

\* C28: the level of an accepted group row is at least 1 and follows its
\* trimmed code: for a code starting with I, the number of segments between
\* underscores plus one, else 2 when longer than two characters, else 1;
\* for another code, the length without leading zeros, at least 1.  "0110"
\* gives 3, "I41_0_1" gives 4 and a code of zeros gives 1.
C28_GroupLevelFollowsCode ==
    \A rk \in GroupEntities :
        LET code == trim(Col(RowAt(rk), "CODE").s)
            level == Outcome(rk).e.level
        IN  /\ level >= 1
            /\ level = ExpectedLevel(code)
            /\ code = <<"0", "1", "1", "0">> => level = 3
            /\ code = <<"I", "4", "1", "_", "0", "_", "1">> => level = 4
            /\ code \in {<<"0">>, <<"0", "0">>} => level = 1
            /\ PostedFor(rk[1], "ERROR") = {} =>
                  Outcome(rk).e \in PublishedEntities(rk[1])

C28_Witness ==
    /\ \E rk \in GroupEntities :
          /\ Col(RowAt(rk), "CODE") = Str(<<"I", "4", "1", "_", "0", "_", "1">>)
          /\ \E e \in PublishedEntities(rk[1]) : e.level = 4 /\ e.type = "unseen"

\* the text a skill-group row is classified by
ClassifiedBy(row) ==
    IF HasText(Col(row, "CODE")) THEN Str(trim(Col(row, "CODE").s)) ELSE Col(row, "ID")

FirstLetterIs(v, letter) == IsString(v) /\ v.s # <<>> /\ Head(v.s) = letter

\* the digits that follow the first "isced-f/" that a digit follows
DigitsAfterIsced(uri) ==
    LET pat == <<"i", "s", "c", "e", "d", "-", "f", "/">>
        at == {i \in 1..Len(uri) :
                 /\ i + Len(pat) <= Len(uri)
                 /\ SubSeq(uri, i, i + Len(pat) - 1) = pat
                 /\ uri[i + Len(pat)] \in {"0", "1", "2", "3", "4", "5", "6", "7", "8", "9"}}
    IN  IF at = {} THEN <<>>
        ELSE LET first == CHOOSE i \in at : \A j \in at : i <= j
                 from == first + Len(pat)
                 run == {n \in from..Len(uri) :
                           \A m \in from..n :
                              uri[m] \in {"0", "1", "2", "3", "4", "5", "6", "7", "8", "9"}}
             IN  SubSeq(uri, from, from + Cardinality(run) - 1)

SkillGroupEntities ==
    {rk \in GivenRows : TypeAt(rk) = "skillGroups" /\ Outcome(rk).k = "entity"}

\* C29: an accepted skill-group row is classified by its trimmed CODE, or by
\* its ID when the CODE holds no text: S, L and T give their categories
\* whatever the origin URI is; otherwise a URI containing "isced-f" gives
\* 'Knowledge', with the digits after "isced-f/" as the code when there are
\* any; otherwise the category is 'Other'.
C29_SkillGroupCategoryPrecedence ==
    \A rk \in SkillGroupEntities :
        LET row == RowAt(rk)
            by == ClassifiedBy(row)
            uri == Col(row, "ORIGINURI")
            isced == IsString(uri) /\ OccursIn(<<"i", "s", "c", "e", "d", "-", "f">>, uri.s)
            e == Outcome(rk).e
        IN  /\ e.category =
                 (IF FirstLetterIs(by, "S") THEN "Skills and competencies"
                  ELSE IF FirstLetterIs(by, "L") THEN "Language"
                  ELSE IF FirstLetterIs(by, "T") THEN "Transversal skills"
                  ELSE IF isced THEN "Knowledge"
                  ELSE "Other")
            /\ e.code = (IF e.category = "Knowledge" /\ DigitsAfterIsced(uri.s) # <<>>
                         THEN DigitsAfterIsced(uri.s) ELSE by.s)
            /\ PostedFor(rk[1], "ERROR") = {} => e \in PublishedEntities(rk[1])

C29_Witness ==
    /\ \E rk \in SkillGroupEntities :
          /\ Col(RowAt(rk), "CODE") = Str(<<" ", "L", "1", " ">>)
          /\ OccursIn(<<"i", "s", "c", "e", "d", "-", "f">>, Col(RowAt(rk), "ORIGINURI").s)
          /\ \E e \in PublishedEntities(rk[1]) : e.category = "Language"

(***************************************************************************)
(* Ties in the search results (specification SpecSearch)                   *)
(***************************************************************************)
\* the items of a list that score v for the query of search s
ScoringIn(list, s, v) ==
    SelectSeq(list, LAMBDA item : RuleSumOfFilledFields(item, ScoredQuery(s)) = v)

ScoresOf(list, s) ==
    {RuleSumOfFilledFields(list[i], ScoredQuery(s)) : i \in 1..Len(list)}

\* C30: the returned items of one score are the first items of that score
\* in the corpus of the category, in corpus order (occupations before
\* groups, skills before skill groups, each list in its own order), with
\* or without a limit that cuts the results.
C30_TiesKeepCorpusOrder ==
    \A s \in Searches : \A m \in AnswersTo(s) :
        LET corpus == CategoryCorpus(Asked(s).searchType)
        IN  \A v \in ScoresOf(m.results, s) :
              IsPrefixOf(ScoringIn(m.results, s, v), ScoringIn(corpus, s, v))

C30_Witness ==
    \E s \in Searches : \E m \in AnswersTo(s) :
        /\ Asked(s).searchType = "skills"
        /\ Len(m.results) = 2
        /\ m.results[1] # m.results[2]
        /\ InList(m.results[1], search.workerData.skills)
        /\ InList(m.results[2], search.workerData.skillGroups)
        /\ Cardinality(ScoresOf(m.results, s)) = 1


(***************************************************************************)
(* Properties of the nodes of the skills master (specification SpecBuild)  *)
(***************************************************************************)
\* the nodes of the master that message i carries, with their keys
NodesOf(i) == {<<k, posted[i].skillsMaster[k]>> : k \in DOMAIN posted[i].skillsMaster}

OrphanLabel(key) ==
    <<"U", "n", "k", "n", "o", "w", "n", " ", "I", "t", "e", "m", " ", "(">> \o key \o <<")">>

\* C31: every node of a built skills master has a non-empty label, and its
\* flags follow its type: a 'skill' is clickable and not searchable, a
\* 'skillgroup' is both, an 'unknown' node is neither and is labelled
\* "Unknown Item (<id>)".
C31_NodeFlagsFollowType ==
    \A i \in Masters : \A kn \in NodesOf(i) :
        LET node == kn[2]
        IN  /\ node.label # <<>>
            /\ node.type \in {"skill", "skillgroup", "unknown"}
            /\ node.type = "skill" => node.isClickable /\ ~node.isSearchable
            /\ node.type = "skillgroup" => node.isClickable /\ node.isSearchable
            /\ node.type = "unknown" =>
                  /\ ~node.isClickable /\ ~node.isSearchable
                  /\ node.label = OrphanLabel(kn[1])

C31_Witness ==
    \E i \in Masters :
        /\ \E kn \in NodesOf(i) : kn[2].type = "unknown" /\ kn[2].label = OrphanLabel(<<"X", "9">>)
        /\ \E kn \in NodesOf(i) : kn[2].type = "skill" /\ kn[2].label = <<"a">>

C31_WitnessGroup ==
    \E i \in Masters : \E kn \in NodesOf(i) :
        kn[2].type = "skillgroup" /\ kn[2].isSearchable /\ kn[2].label = <<"b">>


(***************************************************************************)
(* data-worker.js: the parser's typing of cells (lines 63-68) and the      *)
(* path from ingested rows to a build (specification SpecIngest).  The     *)
(* host ingests CSV text batch by batch, collects the entities of the      *)
(* DATA_CHUNK_PROCESSED messages by dataType, and passes them to           *)
(* BUILD_SKILLS_MASTER.                                                    *)
(***************************************************************************)
codeFields == {"CODE", "OCCUPATIONGROUPCODE", "PARENTID", "CHILDID", "OCCUPATIONID", "SKILLID"}

\* line 65-68: the columns whose cells the parser may convert
dynamicTyping(field) == field \notin codeFields

DigitValue(c) ==
    CASE c = "0" -> 0 [] c = "1" -> 1 [] c = "2" -> 2 [] c = "3" -> 3 [] c = "4" -> 4
      [] c = "5" -> 5 [] c = "6" -> 6 [] c = "7" -> 7 [] c = "8" -> 8 [] OTHER -> 9

\* parseFloat of a string of decimal digits
RECURSIVE parseFloat(_)
parseFloat(s) ==
    IF s = <<>> THEN 0
    ELSE 10 * parseFloat(SubSeq(s, 1, Len(s) - 1)) + DigitValue(s[Len(s)])

\* the parser's conversion of a cell of a dynamically typed column:
\* 'true' and 'false' become booleans, a decimal numeral a number, the
\* empty cell null, anything else stays the text
parseDynamic(text) ==
    IF text = <<"t", "r", "u", "e">> THEN Bool(TRUE)
    ELSE IF text = <<"f", "a", "l", "s", "e">> THEN Bool(FALSE)
    ELSE IF text # <<>> /\ \A k \in 1..Len(text) : IsDigit(text[k]) THEN Num(parseFloat(text))
    ELSE IF text = <<>> THEN Null
    ELSE Str(text)

\* a row of cell texts as the parser hands it to the chunk callback
parseRow(cells) ==
    [field \in DOMAIN cells |->
        IF dynamicTyping(field) THEN parseDynamic(cells[field]) ELSE Str(cells[field])]

parseRows(rows) == [k \in 1..Len(rows) |-> parseRow(rows[k])]

MaxIngested == 3

IdTexts == {<<"S", "1">>, <<"1", "2">>, <<"0", "7">>}

TextBatches ==
    {[dataType |-> "skills", batchId |-> "b1", csvData |-> <<[ID |-> x, PREFERREDLABEL |-> <<"a">>]>>] :
        x \in IdTexts}
    \cup {[dataType |-> "skillGroups", batchId |-> "b1", csvData |-> <<[ID |-> x, PREFERREDLABEL |-> <<"b">>]>>] :
            x \in {<<"G", "1">>, <<"1", "2">>}}
    \cup {[dataType |-> "skillHierarchy", batchId |-> "b1", csvData |-> <<[PARENTID |-> <<"G", "1">>, CHILDID |-> x]>>] :
            x \in IdTexts}

OnlyIngested == \A k \in 1..Len(received) : received[k].command = "PROCESS_CSV_BATCH"

\* the entities of the chunks published so far for a dataType, in order
RECURSIVE IngestedUpTo(_, _)
IngestedUpTo(dataType, n) ==
    IF n = 0 THEN <<>>
    ELSE IngestedUpTo(dataType, n - 1) \o
           (IF posted[n].type = "DATA_CHUNK_PROCESSED" /\ posted[n].dataType = dataType
            THEN posted[n].chunk ELSE <<>>)

Ingested(dataType) == IngestedUpTo(dataType, Len(posted))

\* PROCESS_CSV_BATCH over CSV text: the parser types the cells, then the
\* rows are normalized and published
TextBatchRequested ==
    /\ Len(received) < MaxIngested
    /\ OnlyIngested
    /\ \E b \in TextBatches :
          LET data == [csvData |-> parseRows(b.csvData), errors |-> <<>>,
                       dataType |-> b.dataType, batchId |-> b.batchId]
          IN  /\ received' = Append(received, [command |-> "PROCESS_CSV_BATCH", data |-> b])
              /\ PostAll(processCsvBatch(data, <<data.csvData>>, papaResults, NextReq))
    /\ UNCHANGED <<workerData, timers, papaResults>>
    /\ OtherThanWorker

\* BUILD_SKILLS_MASTER with what the ingestion published
IngestedBuildRequested ==
    /\ received # <<>>
    /\ OnlyIngested
    /\ LET data == [skillHierarchy |-> Arr(Ingested("skillHierarchy")),
                    skills |-> Arr(Ingested("skills")),
                    skillGroups |-> Arr(Ingested("skillGroups"))]
           r == buildSkillsMaster(data, NextReq)
       IN  /\ received' = Append(received, [command |-> "BUILD_SKILLS_MASTER", data |-> data])
           /\ PostAll(r.msgs)
           /\ timers' = IF r.suspended THEN Append(timers, r.frame) ELSE timers
    /\ UNCHANGED <<workerData, papaResults>>
    /\ OtherThanWorker

NextIngest ==
    \/ TextBatchRequested
    \/ IngestedBuildRequested
    \/ BuildTimerFires

SpecIngest == InitChunks /\ [][NextIngest]_vars

\* the texts of a column in the rows ingested for a dataType
IngestedTexts(dataType, field) ==
    {received[k].data.csvData[1][field] :
        k \in {k \in 1..Len(received) : /\ received[k].command = "PROCESS_CSV_BATCH"
                                        /\ received[k].data.dataType = dataType}}

\* C32: when a skill row (or a skill-group row) with ID x and a skill-
\* hierarchy row with CHILDID x were ingested and the published entities
\* are built into a skills master, the master's node for x is a 'skill'
\* (a 'skillgroup' when only a group row carries x), for every text x,
\* a numeral included.
C32_IngestedIdsMeetInTheIndex ==
    \A i \in Masters : \A x \in IngestedTexts("skillHierarchy", "CHILDID") :
        /\ x \in IngestedTexts("skills", "ID") =>
              /\ x \in DOMAIN posted[i].skillsMaster
              /\ posted[i].skillsMaster[x].type = "skill"
        /\ x \in IngestedTexts("skillGroups", "ID") \ IngestedTexts("skills", "ID") =>
              /\ x \in DOMAIN posted[i].skillsMaster
              /\ posted[i].skillsMaster[x].type = "skillgroup"

\* the same for identifiers that are not numerals: reached and true
C32_TextIdsMeetInTheIndex ==
    \A i \in Masters : \A x \in IngestedTexts("skillHierarchy", "CHILDID") :
        (x \in IngestedTexts("skills", "ID") /\ \E k \in 1..Len(x) : ~IsDigit(x[k])) =>
            /\ x \in DOMAIN posted[i].skillsMaster
            /\ posted[i].skillsMaster[x].type = "skill"

C32_NumeralIsOrphaned ==
    \E i \in Masters :
        /\ <<"1", "2">> \in IngestedTexts("skills", "ID")
        /\ <<"1", "2">> \in IngestedTexts("skillHierarchy", "CHILDID")
        /\ posted[i].skillsMaster[<<"1", "2">>].type = "unknown"


(***************************************************************************)
(* Two processInChunks calls in flight on one PerformanceManager           *)
(* (specification SpecOverlap): the second call is made while the first    *)
(* is suspended at an await.  Nothing in processInChunks refuses it.       *)
(***************************************************************************)
MaxRuns == 2

OverlapItems == {s \in SeqsUpTo({Num(1)}, MaxItems) : s # <<>>}

CallWhileRunning ==
    /\ Len(runs) < MaxRuns
    /\ \E items \in OverlapItems, callOpt \in {Num(1), Num(2)},
          observer \in {"none", "reports"} :
          StartRun(items, "identity", Absent, callOpt, observer)
    /\ OtherThanManager

NextOverlap ==
    \/ CallWhileRunning
    \/ HandlerSettles
    \/ ChunkSettles
    \/ YieldSettles

SpecOverlap == InitChunks /\ [][NextOverlap]_vars

InFlight == {r \in 1..Len(runs) : ~Ended(runs[r])}

\* C33: when two processInChunks runs overlap on one manager, neither run
\* faults (the token read at a chunk boundary is never null), a run that
\* has ended has processed all of its items, and isProcessing is true and
\* the token set as long as any run is in flight.
C33_OverlappingRunsDoNotDisturb ==
    /\ \A r \in 1..Len(runs) :
          /\ runs[r].pc # "failed"
          /\ runs[r].pc = "done" => runs[r].processed = Len(runs[r].items)
    /\ InFlight # {} => isProcessing /\ cancelToken # 0

\* the end of the first run takes the token away from under the second
C33_SecondRunFaults ==
    /\ Len(runs) = 2
    /\ runs[1].pc = "done" /\ runs[1].processed = Len(runs[1].items)
    /\ runs[2].pc = "failed" /\ runs[2].processed < Len(runs[2].items)


(***************************************************************************)
(* The instance's flag and token over one run (specification SpecRuns):    *)
(* one call of processInChunks or of renderInChunks is made on a           *)
(* PerformanceManager, on a list or on a value that has no length (null,   *)
(* undefined), and cancel() is called at any time.                         *)
(***************************************************************************)
ProcessInChunksCalledAlone == render.pc = "idle" /\ CallProcessInChunks

ProcessInChunksCalledWithoutItems ==
    /\ runs = <<>>
    /\ render.pc = "idle"
    /\ \E handler \in Handlers, callOpt \in ChunkSizeOptions, observer \in Observers :
          StartRunWithoutItems(handler, Absent, callOpt, observer)
    /\ OtherThanManager

RenderInChunksCalledAlone == runs = <<>> /\ CallRenderInChunks

RenderInChunksCalledWithoutItems ==
    /\ runs = <<>>
    /\ \E name \in Renderers, callOpt \in ChunkSizeOptions, observer \in RenderObservers :
          StartRenderWithoutItems(name, callOpt, observer)
    /\ OtherThanRender

NextRuns ==
    \/ ProcessInChunksCalledAlone
    \/ ProcessInChunksCalledWithoutItems
    \/ RenderInChunksCalledAlone
    \/ RenderInChunksCalledWithoutItems
    \/ HandlerSettles
    \/ ChunkSettles
    \/ YieldSettles
    \/ RenderYieldSettles
    \/ CancelCalled

SpecRuns == InitChunks /\ [][NextRuns]_vars

\* a processInChunks call is over: it left through the finally block, or it
\* threw before the try block
RunOver(f) == Ended(f) \/ f.pc = "threw"

\* C34: over a single processInChunks or renderInChunks run, isProcessing
\* is true and the token is set, the run's own, from the start of the run
\* until it ends; once the run has ended in any way (all chunks done,
\* cancelled, or an exception) isProcessing is false and the token is null.
C34_FlagAndTokenFollowEveryRun ==
    /\ \A r \in 1..Len(runs) :
          /\ ~RunOver(runs[r]) =>
                isProcessing /\ cancelToken # 0 /\ cancelToken = runs[r].token
          /\ RunOver(runs[r]) => ~isProcessing /\ cancelToken = 0
    /\ render.pc = "yield" =>
          isProcessing /\ cancelToken # 0 /\ cancelToken = render.token
    /\ RenderEnded(render) => ~isProcessing /\ cancelToken = 0

\* a processInChunks call on null has rejected and the flag and the token
\* stay set
C34_FlagStaysSet ==
    /\ Len(runs) = 1 /\ runs[1].pc = "threw"
    /\ isProcessing /\ cancelToken = runs[1].token

\* what holds of processInChunks: the flag and the token follow every run
\* that went into the try block of line 37, however it ended (all chunks
\* done, cancelled, or the progress observer threw)
C34_FlagAndTokenFollowTheRun ==
    \A r \in 1..Len(runs) :
        runs[r].pc # "threw" =>
            /\ ~Ended(runs[r]) =>
                  isProcessing /\ cancelToken # 0 /\ cancelToken = runs[r].token
            /\ Ended(runs[r]) => ~isProcessing /\ cancelToken = 0

C34_Witness ==
    /\ Len(runs) = 1
    /\ runs[1].pc = "failed" /\ runs[1].observer = "throws" /\ runs[1].chunks = 1
    /\ Len(runs[1].items) = 3
    /\ ~isProcessing /\ cancelToken = 0

C34_WitnessInFlight ==
    /\ Len(runs) = 1 /\ runs[1].pc = "yield" /\ runs[1].chunks = 2
    /\ isProcessing /\ cancelToken = runs[1].token /\ tokens[cancelToken]

\* what holds of renderInChunks: the flag and the token follow every run,
\* which ends by returning or by an exception of the renderer, of the
\* progress observer or of items.length
C34_FlagAndTokenFollowTheRender ==
    /\ render.pc = "yield" => isProcessing /\ cancelToken # 0 /\ cancelToken = render.token
    /\ RenderEnded(render) => ~isProcessing /\ cancelToken = 0

C34_WitnessRender ==
    /\ render.pc = "threw" /\ render.renderer = "throwsOnTwo" /\ render.chunks = 2
    /\ ~isProcessing /\ cancelToken = 0

\* a render whose observer threw after it was handed the first report
C34_WitnessRenderObserver ==
    /\ render.pc = "threw" /\ render.observer = "throws" /\ Len(render.progress) = 1
    /\ ~isProcessing /\ cancelToken = 0


(***************************************************************************)
(* processInChunks calls one after the other on one PerformanceManager,    *)
(* with cancel() at any time (specification SpecSequence): a call is made  *)
(* only when the call before it has ended.                                 *)
(***************************************************************************)
CallAfterEnd ==
    /\ Len(runs) < MaxRuns
    /\ \A r \in 1..Len(runs) : Ended(runs[r])
    /\ \E items \in OverlapItems, callOpt \in {Num(1), Num(2)} :
          StartRun(items, "identity", Absent, callOpt, "none")
    /\ OtherThanManager

NextSequence ==
    \/ CallAfterEnd
    \/ HandlerSettles
    \/ ChunkSettles
    \/ YieldSettles
    \/ CancelCalled

SpecSequence == InitChunks /\ [][NextSequence]_vars

\* the cancel() calls made while no run was in flight
IdleCancels == {k \in 1..Len(cancelLog) : cancelLog[k].token = 0}

\* the cancel() calls that reached the token of run r
CancelsOf(r) == {k \in 1..Len(cancelLog) : cancelLog[k].token = runs[r].token}

\* C35: cancel() while no run is in flight changes nothing of the manager,
\* and every run starts with a token of its own that is not set: a run
\* that no cancel() reached while it was in flight is never cancelled and
\* returns a result for each of its items, whatever cancel() calls were
\* made before it started or after the run before it ended.
C35_IdleCancelHasNoEffect ==
    /\ [](\A r \in 1..Len(runs) :
            /\ runs[r].token \in 1..Len(tokens)
            /\ \A q \in 1..Len(runs) : q # r => runs[q].token # runs[r].token
            /\ CancelsOf(r) = {} =>
                  /\ ~tokens[runs[r].token]
                  /\ runs[r].pc = "done" => runs[r].results = runs[r].items)
    /\ [][(cancelToken = 0 /\ cancelLog' # cancelLog) =>
             UNCHANGED <<isProcessing, cancelToken, tokens, totalOperations, runs>>]_vars

\* a run follows a cancel() made while the manager was idle after an
\* earlier run, and returns all of its items
C35_Witness ==
    /\ Len(runs) = 2 /\ Len(cancelLog) = 1
    /\ cancelLog[1].token = 0
    /\ Len(cancelLog[1].at) = 1 /\ cancelLog[1].at[1].pc = "done"
    /\ runs[2].pc = "done" /\ Len(runs[2].results) = 3 /\ runs[2].chunks = 2


(***************************************************************************)
(* Builds in flight together (specification Spec)                          *)
(***************************************************************************)
\* C36: when a BUILD_SKILLS_MASTER request is received while an earlier
\* build is suspended at its yield, the SKILLS_MASTER_COMPLETE messages
\* are posted in the order in which the requests were received.
C36_BuildResponsesInRequestOrder ==
    \A i \in Masters, j \in Masters : i < j => posted[i].req < posted[j].req

\* the build of an empty hierarchy, received second, is answered first
C36_LaterBuildAnswersFirst ==
    /\ Len(received) = 2
    /\ received[1].command = "BUILD_SKILLS_MASTER"
    /\ received[2].command = "BUILD_SKILLS_MASTER"
    /\ received[1].data.skillHierarchy.a # <<>>
    /\ received[2].data.skillHierarchy = Arr(<<>>)
    /\ \E i \in Masters, j \in Masters : i < j /\ posted[i].req = 2 /\ posted[j].req = 1


(***************************************************************************)
(* Termination of processInChunks (specification SpecReturns).  A run is   *)
(* given its chunkSize through the constructor or through the call; every  *)
(* handler invocation returns.  The host's event loop runs every queued    *)
(* continuation and timer, hence the weak fairness of the three resuming   *)
(* steps; nothing obliges the host to call processInChunks.                *)
(***************************************************************************)
GivenChunkSizes == {Absent, Undefined, Num(0), Num(2)}

CallWithChunkSize ==
    /\ runs = <<>>
    /\ \E items \in SeqsUpTo(ItemValues, MaxItems), handler \in {"identity", "nullOnTwo"},
          ctorOpt \in GivenChunkSizes, callOpt \in GivenChunkSizes :
          StartRun(items, handler, ctorOpt, callOpt, "none")
    /\ OtherThanManager

NextReturns ==
    \/ CallWithChunkSize
    \/ HandlerSettles
    \/ ChunkSettles
    \/ YieldSettles

SpecReturns ==
    /\ InitChunks
    /\ [][NextReturns]_vars
    /\ WF_vars(HandlerSettles)
    /\ WF_vars(ChunkSettles)
    /\ WF_vars(YieldSettles)

\* C37: every processInChunks call eventually returns, whatever chunkSize
\* the constructor or the call was given.
C37_EveryRunReturns == (runs # <<>>) ~> (runs # <<>> /\ Ended(runs[1]))

\* the reason the claim gives: a chunkSize of 0 counts as the default, and
\* the loop index grows with every iteration
C37_ZeroIsDefault ==
    \A r \in 1..Len(runs) : runs[r].chunkSize.t = "number" /\ runs[r].chunkSize.n > 0

C37_IndexAdvances ==
    [][\A r \in 1..Len(runs) :
          (Len(runs') >= r /\ runs'[r].chunks > runs[r].chunks) => runs'[r].i > runs[r].i]_vars

\* with a chunkSize above 0 the run returns: reached and true
C37_PositiveChunkSizeReturns ==
    (runs # <<>> /\ runs[1].chunkSize.n > 0) ~> (runs # <<>> /\ Ended(runs[1]))


(***************************************************************************)
(* Searches with a blank query (specification SpecSearch)                  *)
(***************************************************************************)
IsBlank(text) == \A k \in 1..Len(text) : IsSpace(text[k])

BlankSearches == {s \in Searches : IsBlank(Asked(s).query.s)}

\* the score of an item for the empty query
BlankScore(item) == RuleSumOfFilledFields(item, <<>>)

\* C38 as stated: for a query that is empty after trimming, every item of
\* the selected corpus scores at least 600, totalFound is the size of the
\* corpus, and the results are the first `limit` items of the corpus.
C38_BlankQueryReturnsCorpusPrefix ==
    \A s \in BlankSearches :
        LET corpus == CategoryCorpus(Asked(s).searchType)
        IN  /\ AnswersTo(s) # {}
            /\ \A m \in AnswersTo(s) :
                  /\ \A i \in 1..Len(corpus) : BlankScore(corpus[i]) >= 600
                  /\ m.totalFound = Len(corpus)
                  /\ m.results = SubSeq(corpus, 1, Min(LimitOf(s), Len(corpus)))

\* C38, amended: for a query that is empty after trimming, every item of
\* the selected corpus scores at least 600, so none is left out of the
\* ranking: totalFound is the size of the corpus, and the results are
\* min(limit, size) items of the corpus in non-increasing order of score,
\* none of them outscored by an item left out.
C38_BlankQueryReturnsTopOfWholeCorpus ==
    \A s \in BlankSearches :
        LET corpus == CategoryCorpus(Asked(s).searchType)
        IN  /\ AnswersTo(s) # {}
            /\ \A m \in AnswersTo(s) :
                  /\ \A i \in 1..Len(corpus) : BlankScore(corpus[i]) >= 600
                  /\ m.totalFound = Len(corpus)
                  /\ Len(m.results) = Min(LimitOf(s), Len(corpus))
                  /\ ItemsOf(m.results) \subseteq ItemsOf(corpus)
                  /\ \A i, j \in 1..Len(m.results) :
                        i < j => BlankScore(m.results[i]) >= BlankScore(m.results[j])
                  /\ \A out \in ItemsOf(corpus) \ ItemsOf(m.results) :
                        \A kept \in ItemsOf(m.results) : BlankScore(out) <= BlankScore(kept)

\* a blank query over a skill followed by a skill group, limit 1: the group,
\* which has a code, is returned and the skill is not
C38_Witness ==
    \E s \in BlankSearches : \E m \in AnswersTo(s) :
        LET corpus == CategoryCorpus(Asked(s).searchType)
        IN  /\ Asked(s).query.s = <<" ">>
            /\ LimitOf(s) = 1
            /\ Len(corpus) = 2
            /\ m.totalFound = 2
            /\ m.results = <<corpus[2]>>
            /\ BlankScore(corpus[1]) = 600
            /\ BlankScore(corpus[2]) > 600


(***************************************************************************)
(* A tree view (specification SpecTree): a TreeVirtualScroller is given a  *)
(* tree, then nodes are toggled and selected, and the page scrolls,        *)
(* resizes and calls the methods of the list the tree view is built on.    *)
(* calls records each setTreeData and toggleNode with the list it left in  *)
(* flattenedItems.                                                         *)
(***************************************************************************)
MaxToggles == 2

NoOptions == [name \in {} |-> 0]

Leaf(id) == [id |-> Str(<<id>>)]
Branch(id, children) == [id |-> Str(<<id>>), children |-> children]

Trees ==
    {Arr(<<Branch("a", <<Branch("b", <<Leaf("d")>>), Leaf("c")>>), Leaf("e")>>),
     Arr(<<Branch("a", <<Leaf("b")>>), Branch("e", <<>>)>>),
     Arr(<<[code |-> Str(<<"a">>), children |-> <<Leaf("b")>>]>>),
     Arr(<<>>)}

NodeIds == {Str(<<"a">>), Str(<<"b">>), Str(<<"e">>)}

\* the container's heights, the positions it is scrolled to (in steps of
\* ScrollStep pixels) and the indices given to scrollToItem and updateItem
MaxScrollSteps == 9
ScrollStep == 66
ScrollPositions == {p * ScrollStep : p \in 0..MaxScrollSteps}
ClientHeights == {100, 500}
ScrollTargets == {-14, 3, 200}
UpdatedIndices == {1, 200}

IsTree == "expandedNodes" \in DOMAIN scroller

InitTree ==
    /\ WorkerIdle
    /\ papaResults = "none"
    /\ ManagerIdle
    /\ LoadIdle
    /\ RenderIdle
    /\ scroller = NewTreeScroller(NoOptions, 100)
    /\ SearchIdle

Called(s, call) == [s EXCEPT !.calls = Append(@, [call |-> call, shown |-> s.flattenedItems])]

OtherThanScroller ==
    UNCHANGED wvars /\ UNCHANGED pvars /\ UNCHANGED lvars /\ UNCHANGED rvars
        /\ UNCHANGED qvars

SetTreeDataCalled ==
    /\ scroller.calls = <<>>
    /\ \E treeData \in Trees, expanded \in SUBSET {Str(<<"a">>), Str(<<"b">>)} :
          scroller' = Called(setTreeData(scroller, treeData, expanded),
                             [op |-> "setTreeData", treeData |-> treeData])
    /\ OtherThanScroller

ToggleNodeCalled ==
    /\ scroller.calls # <<>>
    /\ Len(scroller.calls) <= MaxToggles
    /\ \E nodeId \in NodeIds :
          scroller' = Called(toggleNode(scroller, nodeId),
                             [op |-> "toggleNode", nodeId |-> nodeId])
    /\ OtherThanScroller

SelectNodeCalled ==
    /\ \E nodeId \in NodeIds : scroller' = selectNode(scroller, nodeId)
    /\ OtherThanScroller

\* the lists given to setItems: numbered items for a plain list, one node
\* for a tree view
ItemLists ==
    IF IsTree THEN {<<Leaf("z")>>} ELSE {[k \in 1..n |-> k] : n \in {30, 120}}

SetItemsCalled ==
    /\ scroller.items = <<>>
    /\ \E items \in ItemLists : scroller' = setItems(scroller, items)
    /\ OtherThanScroller

\* the container is scrolled and the browser dispatches a scroll event
ScrollEvent ==
    /\ \E position \in ScrollPositions :
          /\ position # scroller.position
          /\ position <= Extent(scroller)
          /\ scroller' = scrollListener([scroller EXCEPT !.position = position])
    /\ OtherThanScroller

ScrollTimerFires ==
    /\ scroller.scrollTimeout
    /\ scroller' = scrollTimer(scroller)
    /\ OtherThanScroller

ScrollToItemCalled ==
    /\ \E index \in ScrollTargets : scroller' = scrollToItem(scroller, index)
    /\ OtherThanScroller

ScrollToTopCalled ==
    /\ scroller' = scrollToTop(scroller)
    /\ OtherThanScroller

UpdateItemCalled ==
    /\ \E index \in UpdatedIndices :
          scroller' = updateItem(scroller, index, IF IsTree THEN Leaf("z") ELSE 0)
    /\ OtherThanScroller

\* the container takes a height and the ResizeObserver reports it
ContainerResized ==
    /\ \E height \in ClientHeights :
          scroller' = resizeObserved(
                          [scroller EXCEPT !.clientHeight = height,
                                           !.handled = @ /\ height = scroller.clientHeight])
    /\ OtherThanScroller

\* the IntersectionObserver reports the container as in view or out of it
ContainerIntersects ==
    /\ \E isIntersecting \in BOOLEAN :
          scroller' = intersectionObserved(scroller, isIntersecting)
    /\ OtherThanScroller

DestroyCalled ==
    /\ scroller' = destroy(scroller)
    /\ OtherThanScroller

NextTree ==
    \/ SetTreeDataCalled
    \/ ToggleNodeCalled
    \/ SelectNodeCalled
    \/ SetItemsCalled
    \/ ScrollEvent
    \/ ScrollTimerFires
    \/ ScrollToItemCalled
    \/ ScrollToTopCalled
    \/ UpdateItemCalled
    \/ ContainerResized
    \/ ContainerIntersects
    \/ DestroyCalled

SpecTree == InitTree /\ [][NextTree]_vars

Keys(list) == [i \in 1..Len(list) |-> nodeKey(list[i])]

\* the keys of the children of the node with the given key, in order
RECURSIVE ChildKeysOf(_, _)
ChildKeysOf(nodes, key) ==
    IF nodes = <<>> THEN <<>>
    ELSE LET node == Head(nodes)
             children == IF "children" \in DOMAIN node THEN node.children ELSE <<>>
         IN  IF nodeKey(node) = key THEN Keys(children)
             ELSE IF ChildKeysOf(children, key) # <<>> THEN ChildKeysOf(children, key)
             ELSE ChildKeysOf(Tail(nodes), key)

\* the toggles of a node that was listed, collapsed, with children
OpeningToggles ==
    {k \in 2..Len(scroller.calls) :
        /\ scroller.calls[k].call.op = "toggleNode"
        /\ \E p \in 1..Len(scroller.calls[k - 1].shown) :
              LET entry == scroller.calls[k - 1].shown[p]
              IN  /\ nodeKey(entry) = scroller.calls[k].call.nodeId
                  /\ entry.hasChildren = Bool(TRUE)
                  /\ entry.isExpanded = Bool(FALSE)}

PositionOf(list, key) == CHOOSE p \in 1..Len(list) : nodeKey(list[p]) = key

\* C39: after setTreeData(tree), toggleNode(id) on a listed, collapsed node
\* with children leaves a list that holds every node listed before and,
\* directly after the node, its children in order; toggleNode(id) once
\* more leaves the list that was shown before the first of the two calls.
C39_ToggleShowsChildrenAndUndoes ==
    \A k \in OpeningToggles :
        LET before == scroller.calls[k - 1].shown
            after == scroller.calls[k].shown
            id == scroller.calls[k].call.nodeId
            p == PositionOf(before, id)
            block == SubSeq(Keys(after), p + 1, Len(after) - (Len(before) - p))
            children == ChildKeysOf(scroller.calls[1].call.treeData.a, id)
        IN  /\ Len(after) >= Len(before) + Len(children)
            /\ SubSeq(Keys(after), 1, p) = SubSeq(Keys(before), 1, p)
            /\ SubSeq(Keys(after), Len(after) - (Len(before) - p) + 1, Len(after))
                  = SubSeq(Keys(before), p + 1, Len(before))
            /\ SelectSeq(block, LAMBDA key : \E c \in 1..Len(children) : children[c] = key)
                  = children
            /\ block # <<>> /\ block[1] = children[1]
            /\ (k < Len(scroller.calls) /\ scroller.calls[k + 1].call = scroller.calls[k].call)
                  => scroller.calls[k + 1].shown = before

\* the list is empty after the toggle of a listed, collapsed node
C39_ToggleEmptiesTheList ==
    /\ Len(scroller.calls) = 2
    /\ 2 \in OpeningToggles
    /\ Len(scroller.calls[1].shown) = 2
    /\ scroller.calls[2].shown = <<>>
    /\ scroller.items = <<>> /\ scroller.content = <<>>


(***************************************************************************)
(* A scrolled list (specification SpecScroll): a VirtualScroller is given  *)
(* its items once; the page then scrolls the container, resizes it,        *)
(* replaces items and calls scrollToItem and scrollToTop, the throttle     *)
(* timer runs handleScroll and the observers report.                       *)
(***************************************************************************)
GivenOptions == {NoOptions, [threshold |-> 20]}

InitScroll ==
    /\ WorkerIdle
    /\ papaResults = "none"
    /\ ManagerIdle
    /\ LoadIdle
    /\ RenderIdle
    /\ scroller \in {NewScroller(options, clientHeight) :
                        options \in GivenOptions, clientHeight \in ClientHeights}
    /\ SearchIdle

NextScroll ==
    \/ SetItemsCalled
    \/ ScrollEvent
    \/ ScrollTimerFires
    \/ ScrollToItemCalled
    \/ ScrollToTopCalled
    \/ UpdateItemCalled
    \/ ContainerResized
    \/ ContainerIntersects
    \/ DestroyCalled

SpecScroll == InitScroll /\ [][NextScroll]_vars

\* the indices of the items the container shows at its position
FirstShown == scroller.position \div scroller.options.itemHeight
ShownCount ==
    (scroller.clientHeight + scroller.options.itemHeight - 1) \div scroller.options.itemHeight
VisibleWindow ==
    {i \in FirstShown..(FirstShown + ShownCount - 1) : i >= 0 /\ i < Len(scroller.items)}

RenderedIndices == {scroller.content[k].index : k \in 1..Len(scroller.content)}

\* the range render() last drew: [max(0, visibleStart - buffer), min(length, visibleEnd + buffer))
LastRenderedRange ==
    {i \in Max(0, scroller.visibleStart - scroller.options.buffer)..
            (Min(Len(scroller.items), scroller.visibleEnd + scroller.options.buffer) - 1) : TRUE}

Virtualized ==
    /\ Len(scroller.items) > scroller.options.threshold
    /\ scroller.options.buffer = 10
    /\ scroller.options.overscan = 5

\* handleScroll has run for the position the container is at and for the
\* height it has
Handled == scroller.handled /\ scroller.scrollTop = scroller.position

\* C40: for a list longer than the threshold, with buffer 10 and overscan
\* 5, once handleScroll has run for the scroll events so far, every item
\* the container shows is among the rendered ones, whether handleScroll
\* rendered again or skipped the render.
C40_VisibleItemsAreRendered ==
    (Virtualized /\ Handled) =>
        /\ VisibleWindow \subseteq LastRenderedRange
        /\ RenderedIndices = LastRenderedRange

\* handleScroll skipped the render after the window moved by three items
C40_Witness ==
    /\ Virtualized /\ Handled
    /\ Len(scroller.items) = 120
    /\ FirstShown = scroller.visibleStart + 3
    /\ scroller.visibleStart > 0
    /\ Cardinality(VisibleWindow) = 12
    /\ VisibleWindow \subseteq LastRenderedRange
    /\ Len(scroller.content) = 32


(***************************************************************************)
(* Progress reports on longer lists (specification SpecPercent): one       *)
(* processInChunks call with a reporting observer on a list long enough    *)
(* for processed / total * 100 to fall on a half.                          *)
(***************************************************************************)
ReportedLists == {[k \in 1..n |-> Num(1)] : n \in {8, 20, 40}}

ReportedChunkSizes == {Num(8), Num(23)}

CallWithObserver ==
    /\ runs = <<>>
    /\ \E items \in ReportedLists, handler \in {"identity", "nullOnTwo"},
          callOpt \in ReportedChunkSizes :
          StartRun(items, handler, Absent, callOpt, "reports")
    /\ OtherThanManager

NextPercent ==
    \/ CallWithObserver
    \/ HandlerSettles
    \/ ChunkSettles
    \/ YieldSettles

SpecPercent == InitChunks /\ [][NextPercent]_vars

\* the first report of a run over 40 items in chunks of 23 gives 57, the
\* double 23 / 40 * 100 being 57.49999999999999
C26_HalfRoundedDown ==
    \E r \in Runs :
        /\ Len(runs[r].items) = 40
        /\ runs[r].progress # <<>>
        /\ runs[r].progress[1].processed = 23
        /\ runs[r].progress[1].percentage = 57

\* apart from the percentage, the reports are as C26 says
C26_ReportsCountTheChunks ==
    \A r \in Runs :
        LET f == runs[r]
            total == Len(f.items)
        IN  /\ Len(f.progress) = ChunksProcessed(f)
            /\ \A k \in 1..Len(f.progress) :
                  /\ f.progress[k].processed = Len(ChunkPrefix(f, k))
                  /\ f.progress[k].total = total
                  /\ (f.progress[k].percentage = 57 /\ f.progress[k].processed = 23)
                        \/ IsRoundedPercent(f.progress[k].percentage,
                                            f.progress[k].processed, total)
            /\ f.pc = "done" =>
                  /\ f.progress[Len(f.progress)].processed = total
                  /\ f.progress[Len(f.progress)].percentage = 100

=============================================================================
